---- MODULE Spec2Model ----
(***************************************************************************)
(* Go-TLS instrumentation coordinator (package usm, goTLSProgram): the     *)
(* attach/detach protocol, the periodic process sync and the shutdown      *)
(* sequence, over the file registry (utils.FileRegistry), the eBPF manager *)
(* (hooks) and the offsets_data eBPF map (lookup table).                   *)
(***************************************************************************)
EXTENDS Integers, Sequences, FiniteSets, TLC

\* ------------------------------------------------------------------ bounds
\* Host processes other than the agent itself have PIDs 1..MaxPid.
MaxPid == 2
\* AddHook/DetachHook calls of the eBPF manager that may fail in one behaviour.
MaxHookFaults == 1
\* Process-monitor notifications waiting for a callback runner.
MaxPending == 1
\* Payloads the log pipeline hands to the sender in one behaviour.
MaxPayloads == 2
\* Destinations of the log sender: s.destinations.Reliable and .Unreliable.
NumReliable == 2
NumUnreliable == 1
\* CRD checks of the autoscalers controller that are counted (the retries go on).
MaxChecks == 8

\* ------------------------------------------------------------- environment
SelfPid == 0
PIDs == 1..MaxPid
AllPids == {SelfPid} \cup PIDs

\* Executable paths. PathSelf is the agent's own executable; it matches
\* internalProcessRegex. The others are Go binaries the monitor can see.
PathA == "/usr/bin/a"
PathB == "/usr/bin/b"
PathSelf == "/opt/datadog-agent/embedded/bin/system-probe"
UserPaths == {PathA, PathB}
\* Go binaries used as inputs of attachHooks alone.
PathC == "/usr/bin/c"
PathD == "/usr/bin/d"
AnalyzedPaths == UserPaths \cup {PathC, PathD}
NoProc == "none"

\* The registry resolves a path to the identity of the file (device, inode).
PathID(path) ==
    CASE path = PathA -> "idA"
      [] path = PathB -> "idB"
      [] path = PathC -> "idC"
      [] path = PathD -> "idD"
      [] OTHER -> "idSelf"
Ids == {PathID(p) : p \in UserPaths}

internalProcessRegexMatch(path) == path = PathSelf

\* ------------------------------------------------------------ hook targets
connReadProbe == "uprobe__crypto_tls_Conn_Read"
connReadRetProbe == "uprobe__crypto_tls_Conn_Read__return"
connWriteProbe == "uprobe__crypto_tls_Conn_Write"
connWriteRetProbe == "uprobe__crypto_tls_Conn_Write__return"
connCloseProbe == "uprobe__crypto_tls_Conn_Close"

ReadGoTLSFunc == "crypto/tls.(*Conn).Read"
WriteGoTLSFunc == "crypto/tls.(*Conn).Write"
CloseGoTLSFunc == "crypto/tls.(*Conn).Close"
GoTLSFuncs == {ReadGoTLSFunc, WriteGoTLSFunc, CloseGoTLSFunc}

functionToProbes(fn) ==
    CASE fn = ReadGoTLSFunc -> [functionInfo |-> connReadProbe, returnInfo |-> connReadRetProbe]
      [] fn = WriteGoTLSFunc -> [functionInfo |-> connWriteProbe, returnInfo |-> connWriteRetProbe]
      [] OTHER -> [functionInfo |-> connCloseProbe, returnInfo |-> ""]

functionsConfig(fn) ==
    CASE fn = WriteGoTLSFunc -> [IncludeReturnLocations |-> TRUE]
      [] fn = ReadGoTLSFunc -> [IncludeReturnLocations |-> TRUE]
      [] OTHER -> [IncludeReturnLocations |-> FALSE]

\* Number of return locations the inspection reports for a function of a
\* binary (the analyzer's output; only the count shapes the hook list).
NumReturnLocations(path, fn) ==
    CASE path = PathA /\ fn = WriteGoTLSFunc -> 1
      [] path = PathC /\ fn = ReadGoTLSFunc -> 2
      [] path = PathC /\ fn = WriteGoTLSFunc -> 1
      [] path = PathD /\ fn = ReadGoTLSFunc -> 1
      [] path = PathD /\ fn = WriteGoTLSFunc -> 2
      [] OTHER -> 0

\* The iteration order of the Go map functionToProbes is not specified.
FunctionOrders ==
    {o \in [1..3 -> GoTLSFuncs] : \A i, j \in 1..3 : i # j => o[i] # o[j]}

\* getUID(binID) / makeReturnUID(uid, i): entry probes carry idx -1.
ProbeID(name, id, idx) == [EBPFFuncName |-> name, bin |-> id, idx |-> idx]


Range(seq) == {seq[i] : i \in 1..Len(seq)}

\* The AddHook calls attachHooks makes for one function, in program order:
\* one return probe per return location, then the entry probe. A function
\* configured for return locations without a return probe is a
\* configuration error, kept as a marker that stops the loop.
ConfigError == ProbeID("", "", -2)
\* Faulty variant: every return probe of a function gets the same UID
HooksOfFunctionSameUID(path, fn) ==
    LET uprobes == functionToProbes(fn)
        returns ==
            IF functionsConfig(fn).IncludeReturnLocations
            THEN IF uprobes.returnInfo = ""
                 THEN <<ConfigError>>
                 ELSE [i \in 1..NumReturnLocations(path, fn) |->
                          ProbeID(uprobes.returnInfo, PathID(path), 0)]
            ELSE <<>>
        entry ==
            IF uprobes.functionInfo # ""
            THEN <<ProbeID(uprobes.functionInfo, PathID(path), -1)>>
            ELSE <<>>
    IN  returns \o entry
HooksOfFunction(path, fn) ==
    LET uprobes == functionToProbes(fn)
        returns ==
            IF functionsConfig(fn).IncludeReturnLocations
            THEN IF uprobes.returnInfo = ""
                 THEN <<ConfigError>>
                 ELSE [i \in 1..NumReturnLocations(path, fn) |->
                          ProbeID(uprobes.returnInfo, PathID(path), i - 1)]
            ELSE <<>>
        entry ==
            IF uprobes.functionInfo # ""
            THEN <<ProbeID(uprobes.functionInfo, PathID(path), -1)>>
            ELSE <<>>
    IN  returns \o entry

HookPlan(path, order) ==
    HooksOfFunction(path, order[1]) \o HooksOfFunction(path, order[2])
        \o HooksOfFunction(path, order[3])

\* attachHooks with the map iterated in `order` and the failAt-th AddHook
\* call failing (0: none fails). On an error it returns a nil list and
\* leaves the probes it already added in the manager.
attachHooks(path, order, failAt) ==
    LET plan == HookPlan(path, order)
        cfgAt == IF ConfigError \in Range(plan)
                 THEN CHOOSE i \in 1..Len(plan) :
                        /\ plan[i] = ConfigError
                        /\ \A j \in 1..(i - 1) : plan[j] # ConfigError
                 ELSE 0
        stopAt == IF cfgAt # 0 /\ (failAt = 0 \/ cfgAt <= failAt) THEN cfgAt ELSE failAt
    IN  IF stopAt = 0
        THEN [err |-> FALSE, probeIDs |-> plan, added |-> Range(plan)]
        ELSE [err |-> TRUE, probeIDs |-> <<>>,
              added |-> {plan[i] : i \in 1..(stopAt - 1)}]

addInspectionResultToMap(map, id) == map \cup {id}
removeInspectionResultFromMap(map, id) == map \ {id}

\* Faulty variant: the map entry is left in place while the hooks go
unregisterCBMapKeeps(map, probeIDs, id) == map
\* unregisterCB before its loop: nothing to do for an empty list, else the
\* map entry goes first.
unregisterCBMap(map, probeIDs, id) ==
    IF probeIDs = {} THEN map ELSE removeInspectionResultFromMap(map, id)

\* Faulty variant: the loop returns at the first DetachHook error
detachHooksStopsAtError(installed, probeIDs, failed) ==
    IF failed = {} THEN installed \ probeIDs ELSE installed
\* Faulty variant: the loop detaches nothing
detachHooksNone(installed, probeIDs, failed) == installed
\* unregisterCB's loop: DetachHook for every listed probe; the probes in
\* `failed` are those whose DetachHook returns an error and stay attached.
detachHooks(installed, probeIDs, failed) == installed \ (probeIDs \ failed)

\* ------------------------------------------------------------------- state
Mon == {"m1", "m2"}
Loop == "loop"
Stopper == "stop"
Api == "api"
Threads == Mon \cup {Loop, Stopper, Api}
NoPid == -1

VARIABLES
    cfgExcludeSelf, \* cfg.GoTLSExcludeSelf
    procs,          \* procfs: pid -> executable path, NoProc when not running
    notifs,         \* process-monitor events not yet handed to a callback
    subscribed,     \* SubscribeExec/SubscribeExit still in place
    regPids,        \* registry: identity -> interested PIDs
    regProbeIDs,    \* identity -> probes listed in *probeIDs of the entry's unregister callback
    hooks,          \* probes attached in the eBPF manager
    offsetsData,    \* keys present in the offsets_data map
    pc, tpid, tpath, \* per thread: position, pid and path of the call in progress
    candidates,     \* sync: deletionCandidates
    attachTodo,     \* sync: enumerated PIDs still to visit
    done,           \* p.done is closed
    faultsLeft,     \* AddHook/DetachHook calls that may still fail
    lastErr         \* the error, if any, an AttachPID/DetachPID call returned in the last step

vars == <<cfgExcludeSelf, procs, notifs, subscribed, regPids, regProbeIDs,
          hooks, offsetsData, pc, tpid, tpath, candidates, attachTodo, done, faultsLeft, lastErr>>

envVars == <<procs, notifs>>
regVars == <<regPids, regProbeIDs, hooks, offsetsData>>
syncVars == <<candidates, attachTodo>>

\* The log sender (package sender, Sender).
VARIABLES
    inputChan,         \* s.inputChan: payloads queued for run
    inputClosed,       \* s.inputChan is closed
    produced,          \* payloads the pipeline has put on inputChan so far
    senderDoneChanSet, \* s.senderDoneChan != nil
    flushWgSet,        \* s.flushWg != nil
    flushWgDone,       \* payload -> calls of s.flushWg.Done() made for it
    senderPc,          \* position of run
    payload,           \* run: the payload taken from inputChan
    sent,              \* run: sent
    destIdx,           \* run: index of destSender in the loop in progress
    lastSendSucceeded, \* reliable destSender -> destSender.lastSendSucceeded
    destInput,         \* destSender -> payloads it has accepted
    dropped,           \* <<destSender, payload>> counted in tlmPayloadsDropped
    destStopped,       \* destSender -> destSender.Stop() was called
    senderDoneWg,      \* run: counter of senderDoneWg
    wgHeld,            \* senderDoneWg references received from senderDoneChan, not yet Done
    egress,            \* payloads reported by ReportComponentEgress
    sinkClosed,        \* sink is closed
    stopPc             \* position of the caller of Sender.Stop

\* A call of attachHooks on its own: its arguments and what it returned.
VARIABLES attachCall

senderVars == <<inputChan, inputClosed, produced, senderDoneChanSet, flushWgSet, flushWgDone,
                senderPc, payload, sent, destIdx, lastSendSucceeded, destInput,
                dropped, destStopped, senderDoneWg, wgHeld, egress, sinkClosed, stopPc>>

Reliable == 1..NumReliable
Unreliable == (NumReliable + 1)..(NumReliable + NumUnreliable)
Dests == Reliable \cup Unreliable
Payloads == 1..MaxPayloads
NoPayload == 0

\* NewSender followed by Start: run is at `range s.inputChan`.
NewSender(chans, wgs) ==
    /\ inputChan = <<>> /\ inputClosed = FALSE /\ produced = 0
    /\ senderDoneChanSet \in chans
    /\ flushWgSet \in wgs
    /\ flushWgDone = [pl \in Payloads |-> 0]
    /\ senderPc = "range"
    /\ payload = NoPayload /\ sent = FALSE /\ destIdx = 1
    /\ lastSendSucceeded = [d \in Reliable |-> FALSE]
    /\ destInput = [d \in Dests |-> {}]
    /\ dropped = {}
    /\ destStopped = [d \in Dests |-> FALSE]
    /\ senderDoneWg = 0 /\ wgHeld = 0
    /\ egress = {}
    /\ sinkClosed = FALSE
    /\ stopPc = "idle"

\* No call of attachHooks on its own.
NoAttachCall ==
    attachCall = [path |-> NoProc, order |-> <<>>, failAt |-> 0, called |-> FALSE,
                  result |-> [err |-> FALSE, probeIDs |-> <<>>, added |-> {}]]

\* The WPA part of the autoscalers controller (package controllers).
VARIABLES
    wpaPc,           \* position of runWPA
    checkErr,        \* waitForWPACRD: what the last call of check returned
    currentInterval, \* exp.currentInterval, in seconds
    delay,           \* the delay of the retry in progress, in seconds
    attempt,         \* notifyCheckWPACRD: attempt
    elapsed,         \* exp.GetElapsedTime(), in seconds
    retryErr,        \* what backoff.RetryNotify returned
    handlers,        \* the informer has the WPA event handlers
    wpaEnabled,      \* h.wpaEnabled
    wpaObj,          \* the informer's cache: the WPA object, if any
    handlerPc,       \* the event handler the informer is running
    updateCall,      \* arguments of the update event being handled
    wpaQueue,        \* h.wpaQueue: keys waiting for the worker
    toStore          \* h.toStore.data: metrics of the local store

wpaVars == <<wpaPc, checkErr, currentInterval, delay, attempt, elapsed, retryErr,
             handlers, wpaEnabled, wpaObj, handlerPc, updateCall, wpaQueue, toStore>>

\* const block of the controller, durations in seconds.
crdCheckInitialInterval == 5
crdCheckMaxInterval == 300
crdCheckMultiplier == 2
crdCheckMaxElapsedTime == 0

\* What check() can return: nil, a *apierrors.StatusError (with its reason
\* and its details), or an error of another type. A status with the reason
\* NotFound carries details: the client builds them for a 404 answer, and
\* isWPACRDNotFoundError reads them without a test for nil.
CheckError(type, reason, hasDetails, group, kind) ==
    [type |-> type, reason |-> reason, hasDetails |-> hasDetails,
     group |-> group, kind |-> kind]
NilError == CheckError("nil", "", FALSE, "", "")
WPAGroup == "datadoghq.com"
WPAResource == "watermarkpodautoscalers"
ErrCRDNotFound == CheckError("StatusError", "NotFound", TRUE, WPAGroup, WPAResource)
ErrOtherNotFound == CheckError("StatusError", "NotFound", TRUE, "", "pods")
ErrForbidden == CheckError("StatusError", "Forbidden", FALSE, "", "")
ErrTimeout == CheckError("error", "", FALSE, "", "")
ErrOtherGroupNotFound == CheckError("StatusError", "NotFound", TRUE, "apps", WPAResource)
CheckErrors == {NilError, ErrCRDNotFound, ErrOtherNotFound, ErrOtherGroupNotFound,
                ErrForbidden, ErrTimeout}

\* The objects an event can carry: a WPA with its metrics-relevant
\* configuration, or an object UnstructuredIntoWPA cannot convert.
WPAKey == "default/wpa"
NoObject == [key |-> "", config |-> "", convertible |-> FALSE]
Malformed == [key |-> WPAKey, config |-> "", convertible |-> FALSE]
Configs == {"metricA", "metricB"}
WPAObjects == {[key |-> WPAKey, config |-> c, convertible |-> TRUE] : c \in Configs}
NoUpdateCall == [old |-> NoObject, obj |-> NoObject]

\* runWPA has been called: it is in waitForWPACRD, after exp.Reset().
StartWPA ==
    /\ wpaPc = "check"
    /\ checkErr = NilError
    /\ currentInterval = crdCheckInitialInterval
    /\ delay = 0 /\ attempt = 0 /\ elapsed = 0
    /\ retryErr = "none"
    /\ handlers = FALSE /\ wpaEnabled = FALSE
    /\ wpaObj = NoObject
    /\ handlerPc = "idle"
    /\ updateCall = NoUpdateCall
    /\ wpaQueue = {}
    /\ toStore = {}

\* The state after PreStart: nothing registered, both subscriptions in
\* place, the main goroutine at its select. `cfgs` are the configured values
\* of GoTLSExcludeSelf, `faults` the hook calls that may fail.
InitWith(cfgs, faults) ==
    /\ cfgExcludeSelf \in cfgs
    /\ faultsLeft = faults
    /\ procs = [p \in AllPids |-> IF p = SelfPid THEN PathSelf ELSE NoProc]
    /\ notifs = {}
    /\ subscribed = TRUE
    /\ regPids = [id \in Ids |-> {}]
    /\ regProbeIDs = [id \in Ids |-> {}]
    /\ hooks = {}
    /\ offsetsData = {}
    /\ pc = [t \in Threads |-> IF t = Loop THEN "select" ELSE "idle"]
    /\ tpid = [t \in Threads |-> NoPid]
    /\ tpath = [t \in Threads |-> NoProc]
    /\ candidates = {} /\ attachTodo = {}
    /\ done = FALSE
    /\ lastErr = "none"

\* The per-identity section of the registry is held by the thread that runs
\* a first-register or last-unregister callback for the identity.
InCallback(t) == pc[t] \in {"analyze", "attach_hooks", "detach_hooks"}
\* Faulty variant: the registry without its per-identity section
LockedNever(id) == FALSE
\* Faulty variant: one section for all identities
LockedGlobal(id) == \E t \in Threads : InCallback(t)
Locked(id) == \E t \in Threads : InCallback(t) /\ PathID(tpath[t]) = id
HostPath(id) == CHOOSE path \in UserPaths : PathID(path) = id

\* Faulty variant: the PIDs of one identity are missing from the snapshot
GetRegisteredProcessesPartial == regPids[PathID(PathA)]
\* The snapshot of every tracked PID, taken at one moment.
GetRegisteredProcesses == UNION {regPids[id] : id \in Ids}

\* Faulty variant: sync returns after the enumeration, without the loop over
\* deletionCandidates
LoopNextSkipsDetach(todo, cands) ==
    IF todo # {} THEN "sync_attach" ELSE "select"
\* Where the sync goes on after a call: next enumerated PID, then the
\* remaining deletion candidates, then back to the select.
LoopNext(todo, cands) ==
    IF todo # {} THEN "sync_attach"
    ELSE IF cands # {} THEN "sync_detach"
    ELSE "select"

\* No AttachPID/DetachPID call returns in this step.
NoReturn == lastErr' = "none"

\* Faulty variant: GoTLSAttachPID returns whatever AttachPID returns
GoTLSAttachPIDPassesAll(err) == err
\* What GoTLSAttachPID returns when AttachPID has returned err.
GoTLSAttachPIDResult(err) ==
    IF err = "ErrPathIsAlreadyRegistered" THEN "nil" ELSE err

\* What the caller in thread t gets when its AttachPID/DetachPID returns e:
\* the API caller called AttachPID through GoTLSAttachPID.
Returned(t, e) == IF t = Api THEN GoTLSAttachPIDResult(e) ELSE e

\* Faulty variant: sync returns at the first call that fails
ReturnAbortsSweep(t, e, todo, cands) ==
    /\ pc' = [pc EXCEPT ![t] = IF t = Loop
                                THEN (IF e = "nil" THEN LoopNext(todo, cands) ELSE "select")
                                ELSE "idle"]
    /\ tpid' = [tpid EXCEPT ![t] = NoPid]
    /\ tpath' = [tpath EXCEPT ![t] = NoProc]
    /\ lastErr' = IF Returned(t, e) = "nil" THEN "none" ELSE Returned(t, e)
\* Thread t's AttachPID/DetachPID call returns e.
Return(t, e, todo, cands) ==
    /\ pc' = [pc EXCEPT ![t] = IF t = Loop THEN LoopNext(todo, cands) ELSE "idle"]
    /\ tpid' = [tpid EXCEPT ![t] = NoPid]
    /\ tpath' = [tpath EXCEPT ![t] = NoProc]
    /\ lastErr' = IF Returned(t, e) = "nil" THEN "none" ELSE Returned(t, e)


\* ------------------------------------------------------------- environment
\* The process monitor delivers each event at most once and may lose it.
Notify(kind, p, notify) ==
    IF notify /\ subscribed /\ Cardinality(notifs) < MaxPending
    THEN notifs \cup {[kind |-> kind, pid |-> p]}
    ELSE notifs

\* A process starts under a free PID.
ProcStart(p, path, notify) ==
    /\ procs[p] = NoProc
    /\ procs' = [procs EXCEPT ![p] = path]
    /\ notifs' = Notify("exec", p, notify)
    /\ NoReturn /\ UNCHANGED <<cfgExcludeSelf, senderVars, attachCall, wpaVars, subscribed, regVars, pc, tpid, tpath,
                   syncVars, done, faultsLeft>>

ProcExit(p, notify) ==
    /\ p \in PIDs
    /\ procs[p] # NoProc
    /\ procs' = [procs EXCEPT ![p] = NoProc]
    /\ notifs' = Notify("exit", p, notify)
    /\ NoReturn /\ UNCHANGED <<cfgExcludeSelf, senderVars, attachCall, wpaVars, subscribed, regVars, pc, tpid, tpath,
                   syncVars, done, faultsLeft>>

\* ---------------------------------------------------------------- AttachPID
\* Faulty variant: the test against internalProcessRegex is missing
AttachPIDSkipsInternalCheck(t, p, todo, cands) ==
    IF cfgExcludeSelf /\ p = SelfPid
    THEN Return(t, "ErrSelfExcluded", todo, cands)
    ELSE IF procs[p] = NoProc
    THEN Return(t, "ErrReadlink", todo, cands)
    ELSE /\ pc' = [pc EXCEPT ![t] = "register"]
         /\ tpid' = [tpid EXCEPT ![t] = p]
         /\ tpath' = [tpath EXCEPT ![t] = procs[p]]
         /\ NoReturn
\* AttachPID up to the call of registry.Register: self exclusion, readlink
\* of /proc/<pid>/exe, internal-process exclusion.
AttachPID(t, p, todo, cands) ==
    IF cfgExcludeSelf /\ p = SelfPid
    THEN Return(t, "ErrSelfExcluded", todo, cands)
    ELSE IF procs[p] = NoProc
    THEN Return(t, "ErrReadlink", todo, cands)
    ELSE IF internalProcessRegexMatch(procs[p])
    THEN Return(t, "ErrInternalDDogProcessRejected", todo, cands)
    ELSE /\ pc' = [pc EXCEPT ![t] = "register"]
         /\ tpid' = [tpid EXCEPT ![t] = p]
         /\ tpath' = [tpath EXCEPT ![t] = procs[p]]
         /\ NoReturn

\* GoTLSAttachPID(pid), called by a client of the package; `enabled` is
\* goTLSSpec.Instance != nil.
GoTLSAttachPID(p, enabled) ==
    /\ pc[Api] = "idle"
    /\ IF enabled
       THEN AttachPID(Api, p, attachTodo, candidates)
       ELSE Return(Api, "ErrGoTLSNotEnabled", attachTodo, candidates)
    /\ UNCHANGED <<cfgExcludeSelf, senderVars, attachCall, wpaVars, envVars, subscribed, regVars, syncVars, done, faultsLeft>>

handleProcessStart(t, p) ==
    /\ t \in Mon /\ pc[t] = "idle"
    /\ subscribed /\ [kind |-> "exec", pid |-> p] \in notifs
    /\ notifs' = notifs \ {[kind |-> "exec", pid |-> p]}
    /\ AttachPID(t, p, attachTodo, candidates)
    /\ UNCHANGED <<cfgExcludeSelf, senderVars, attachCall, wpaVars, procs, subscribed, regVars, syncVars, done, faultsLeft>>

\* ----------------------------------------------------------------- registry
\* Faulty variant: the entry stays when the callback has failed
\* What Register leaves in the interested sets when the first-register
\* callback of identity id, called for PID p, has returned: the entry exists
\* only if the callback succeeded.
EndFirstRegisterKeeps(id, p, ok) == [regPids EXCEPT ![id] = {p}]
EndFirstRegister(id, p, ok) ==
    IF ok THEN [regPids EXCEPT ![id] = {p}] ELSE regPids

\* Faulty variant: the new PID replaces the set
AddInterestedReplaces(id, p) == [regPids EXCEPT ![id] = {p}]
\* Register on an identity that has an entry: the PID joins the set.
AddInterested(id, p) == [regPids EXCEPT ![id] = @ \cup {p}]

\* Faulty variant: a duplicate is accepted silently
AlreadyTrackedAccepts(id, p) == "nil"
\* Register's answer on an identity that has an entry.
AlreadyTracked(id, p) ==
    IF p \in regPids[id] THEN "ErrPathIsAlreadyRegistered" ELSE "nil"

\* Register(path, pid, ...): with the identity's section free, a PID already
\* in the set is a duplicate, a new PID of a tracked identity is added, and
\* for an untracked identity the first-register callback starts.
Register(t) ==
    /\ pc[t] = "register"
    /\ LET id == PathID(tpath[t])
           p == tpid[t]
       IN  /\ ~Locked(id)
           /\ IF regPids[id] # {}
              THEN /\ regPids' = AddInterested(id, p)
                   /\ Return(t, AlreadyTracked(id, p), attachTodo, candidates)
              ELSE /\ pc' = [pc EXCEPT ![t] = "analyze"]
                   /\ NoReturn /\ UNCHANGED <<regPids, tpid, tpath>>
    /\ UNCHANGED <<cfgExcludeSelf, senderVars, attachCall, wpaVars, envVars, subscribed, regProbeIDs, hooks,
                   offsetsData, syncVars, done, faultsLeft>>

\* registerCB up to attachHooks: open the file, parse it, inspect it, write
\* the result to the offsets_data map. Any of them may fail.
AnalysisErrors == {"ErrOpen", "ErrELF", "ErrNoSymbols", "ErrInspect", "ErrMapPut"}
registerCBAnalyze(t, outcome) ==
    /\ pc[t] = "analyze"
    /\ IF outcome = "nil"
       THEN /\ offsetsData' = addInspectionResultToMap(offsetsData, PathID(tpath[t]))
            /\ pc' = [pc EXCEPT ![t] = "attach_hooks"]
            /\ NoReturn /\ UNCHANGED <<tpid, tpath>>
       ELSE /\ outcome \in AnalysisErrors
            /\ Return(t, outcome, attachTodo, candidates)
            /\ UNCHANGED offsetsData
    /\ regPids' = EndFirstRegister(PathID(tpath[t]), tpid[t], FALSE)
    /\ UNCHANGED <<cfgExcludeSelf, senderVars, attachCall, wpaVars, envVars, subscribed, regProbeIDs, hooks,
                   syncVars, done, faultsLeft>>

\* Faulty variant: registerCB reports success although attachHooks failed
registerCBSwallowsError(res) == "nil"
\* The error registerCB returns after attachHooks.
registerCBError(res) == IF res.err THEN "ErrAttachHooks" ELSE "nil"

\* Faulty variant: registerCB without `*probeIDs = pIDs`
registerCBAttachDropsList(t, order, failAt) ==
    /\ pc[t] = "attach_hooks"
    /\ LET id == PathID(tpath[t])
           res == attachHooks(tpath[t], order, failAt)
       IN  /\ failAt <= Len(HookPlan(tpath[t], order))
           /\ faultsLeft' = IF failAt = 0 THEN faultsLeft ELSE faultsLeft - 1
           /\ faultsLeft' >= 0
           /\ hooks' = hooks \cup res.added
           /\ regPids' = EndFirstRegister(id, tpid[t], registerCBError(res) = "nil")
           /\ Return(t, registerCBError(res), attachTodo, candidates)
           /\ IF res.err
              THEN /\ offsetsData' = removeInspectionResultFromMap(offsetsData, id)
                   /\ UNCHANGED regProbeIDs
              ELSE /\ UNCHANGED regProbeIDs
                   /\ UNCHANGED offsetsData
    /\ UNCHANGED <<cfgExcludeSelf, senderVars, attachCall, wpaVars, envVars, subscribed, syncVars, done>>
\* registerCB from attachHooks on, and the end of Register: on success the
\* probe list is stored and the entry is created with the PID; on a failure
\* the map entry is removed and no entry is created.
registerCBAttach(t, order, failAt) ==
    /\ pc[t] = "attach_hooks"
    /\ LET id == PathID(tpath[t])
           res == attachHooks(tpath[t], order, failAt)
       IN  /\ failAt <= Len(HookPlan(tpath[t], order))
           /\ faultsLeft' = IF failAt = 0 THEN faultsLeft ELSE faultsLeft - 1
           /\ faultsLeft' >= 0
           /\ hooks' = hooks \cup res.added
           /\ regPids' = EndFirstRegister(id, tpid[t], registerCBError(res) = "nil")
           /\ Return(t, registerCBError(res), attachTodo, candidates)
           /\ IF res.err
              THEN /\ offsetsData' = removeInspectionResultFromMap(offsetsData, id)
                   /\ UNCHANGED regProbeIDs
              ELSE /\ regProbeIDs' = [regProbeIDs EXCEPT ![id] = Range(res.probeIDs)]
                   /\ UNCHANGED offsetsData
    /\ UNCHANGED <<cfgExcludeSelf, senderVars, attachCall, wpaVars, envVars, subscribed, syncVars, done>>

\* Unregister(pid), as DetachPID calls it: not found when no identity holds
\* the PID; otherwise, with the section of an identity that holds it free,
\* the PID leaves the set, and when the set becomes empty the
\* last-unregister callback starts (it removes the map entry first, unless
\* its probe list is empty).
UnregisterReturning(t, p, todo, cands, notFound) ==
    LET owners == {id \in Ids : p \in regPids[id]}
    IN  IF owners = {}
        THEN /\ Return(t, notFound, todo, cands)
             /\ UNCHANGED <<regPids, offsetsData>>
        ELSE \E id \in owners :
             /\ ~Locked(id)
             /\ regPids' = [regPids EXCEPT ![id] = @ \ {p}]
             /\ IF regPids[id] = {p}
                THEN /\ pc' = [pc EXCEPT ![t] = "detach_hooks"]
                     /\ tpath' = [tpath EXCEPT ![t] = HostPath(id)]
                     /\ offsetsData' = unregisterCBMap(offsetsData, regProbeIDs[id], id)
                     /\ NoReturn /\ UNCHANGED <<tpid>>
                ELSE /\ Return(t, "nil", todo, cands)
                     /\ UNCHANGED offsetsData

Unregister(t, p, todo, cands) ==
    UnregisterReturning(t, p, todo, cands, "ErrPathIsNotRegistered")

\* Faulty variant: DetachPID drops the registry's error
DetachPIDDropsError(t, p, todo, cands) == UnregisterReturning(t, p, todo, cands, "nil")
\* DetachPID returns what registry.Unregister returns.
DetachPID(t, p, todo, cands) == Unregister(t, p, todo, cands)

handleProcessExit(t, p) ==
    /\ t \in Mon /\ pc[t] = "idle"
    /\ subscribed /\ [kind |-> "exit", pid |-> p] \in notifs
    /\ notifs' = notifs \ {[kind |-> "exit", pid |-> p]}
    /\ DetachPID(t, p, attachTodo, candidates)
    /\ UNCHANGED <<cfgExcludeSelf, senderVars, attachCall, wpaVars, procs, subscribed, regProbeIDs, hooks, syncVars,
                   done, faultsLeft>>

\* The rest of unregisterCB and the end of Unregister: every listed probe is
\* detached (a failure is logged and skipped), the entry is deleted.
unregisterCBDetach(t, failed) ==
    /\ pc[t] = "detach_hooks"
    /\ LET id == PathID(tpath[t])
       IN  /\ failed \subseteq regProbeIDs[id]
           /\ faultsLeft' = faultsLeft - Cardinality(failed)
           /\ faultsLeft' >= 0
           /\ hooks' = detachHooks(hooks, regProbeIDs[id], failed)
           /\ regProbeIDs' = [regProbeIDs EXCEPT ![id] = {}]
           /\ Return(t, "nil", attachTodo, candidates)
    /\ UNCHANGED <<cfgExcludeSelf, senderVars, attachCall, wpaVars, envVars, subscribed, regPids, offsetsData, syncVars, done>>


\* --------------------------------------------------------------------- sync
\* The ticker fires: sync starts with the snapshot of the registered PIDs.
syncSnapshot ==
    /\ pc[Loop] = "select"
    /\ candidates' = GetRegisteredProcesses
    /\ pc' = [pc EXCEPT ![Loop] = "sync_list"]
    /\ NoReturn /\ UNCHANGED <<cfgExcludeSelf, senderVars, attachCall, wpaVars, envVars, subscribed, regVars, tpid, tpath,
                   attachTodo, done, faultsLeft>>

\* Faulty variant: the test on deletionCandidates is inverted
syncListInverted ==
    /\ pc[Loop] = "sync_list"
    /\ LET live == {p \in AllPids : procs[p] # NoProc}
       IN  /\ attachTodo' = live \cap candidates
           /\ candidates' = candidates \cap live
           /\ pc' = [pc EXCEPT ![Loop] = LoopNext(attachTodo', candidates')]
    /\ NoReturn /\ UNCHANGED <<cfgExcludeSelf, senderVars, attachCall, wpaVars, envVars, subscribed, regVars, tpid, tpath,
                   done, faultsLeft>>
\* Faulty variant: deletionCandidates is the registry's own map, so the
\* delete of a listed PID untracks it
syncListSharesMap ==
    /\ pc[Loop] = "sync_list"
    /\ LET live == {p \in AllPids : procs[p] # NoProc}
       IN  /\ attachTodo' = live \ candidates
           /\ candidates' = candidates \ live
           /\ regPids' = [id \in Ids |-> regPids[id] \ live]
           /\ pc' = [pc EXCEPT ![Loop] = LoopNext(attachTodo', candidates')]
    /\ NoReturn /\ UNCHANGED <<cfgExcludeSelf, senderVars, attachCall, wpaVars, envVars, subscribed, regProbeIDs,
                   hooks, offsetsData, tpid, tpath, done, faultsLeft>>
\* WithAllProcs lists the running processes: the listed candidates are
\* dropped from deletionCandidates, the others are to be attached.
syncList ==
    /\ pc[Loop] = "sync_list"
    /\ LET live == {p \in AllPids : procs[p] # NoProc}
       IN  /\ attachTodo' = live \ candidates
           /\ candidates' = candidates \ live
           /\ pc' = [pc EXCEPT ![Loop] = LoopNext(attachTodo', candidates')]
    /\ NoReturn /\ UNCHANGED <<cfgExcludeSelf, senderVars, attachCall, wpaVars, envVars, subscribed, regVars, tpid, tpath,
                   done, faultsLeft>>

\* Faulty variant: the enumeration stops after its first AttachPID
syncAttachFirstOnly ==
    /\ pc[Loop] = "sync_attach"
    /\ LET p == CHOOSE q \in attachTodo : \A r \in attachTodo : q <= r
       IN  /\ attachTodo' = {}
           /\ AttachPID(Loop, p, attachTodo', candidates)
    /\ UNCHANGED <<cfgExcludeSelf, senderVars, attachCall, wpaVars, envVars, subscribed, regVars, candidates, done, faultsLeft>>
\* The callback of WithAllProcs on the next listed PID (ascending, as procfs
\* lists them) that is no candidate: AttachPID.
syncAttach ==
    /\ pc[Loop] = "sync_attach"
    /\ LET p == CHOOSE q \in attachTodo : \A r \in attachTodo : q <= r
       IN  /\ attachTodo' = attachTodo \ {p}
           /\ AttachPID(Loop, p, attachTodo', candidates)
    /\ UNCHANGED <<cfgExcludeSelf, senderVars, attachCall, wpaVars, envVars, subscribed, regVars, candidates, done, faultsLeft>>

\* The loop over the remaining deletionCandidates (a Go map, any order):
\* handleProcessExit.
syncDetach(p) ==
    /\ pc[Loop] = "sync_detach"
    /\ p \in candidates
    /\ candidates' = candidates \ {p}
    /\ DetachPID(Loop, p, attachTodo, candidates')
    /\ UNCHANGED <<cfgExcludeSelf, senderVars, attachCall, wpaVars, envVars, subscribed, regProbeIDs, hooks, attachTodo,
                   done, faultsLeft>>

\* ----------------------------------------------------------------- shutdown
\* Stop: close(p.done), then wait for the main goroutine.
Stop ==
    /\ pc[Stopper] = "idle"
    /\ done' = TRUE
    /\ pc' = [pc EXCEPT ![Stopper] = "wait"]
    /\ NoReturn /\ UNCHANGED <<cfgExcludeSelf, senderVars, attachCall, wpaVars, envVars, subscribed, regVars, tpid, tpath,
                   syncVars, faultsLeft>>

\* The select sees p.done closed: the deferred cleanup starts with the
\* ticker stop and the cancellation of both subscriptions.
loopUnsubscribe ==
    /\ pc[Loop] = "select"
    /\ done
    /\ subscribed' = FALSE
    /\ notifs' = {}
    /\ pc' = [pc EXCEPT ![Loop] = "cleanup"]
    /\ NoReturn /\ UNCHANGED <<cfgExcludeSelf, senderVars, attachCall, wpaVars, procs, regVars, tpid, tpath, syncVars, done, faultsLeft>>

\* registry.Clear: the last-unregister callback of every entry, then no
\* entry is left. `failed` are the probes whose DetachHook fails.
Clear(failed) ==
    /\ regPids' = [id \in Ids |-> {}]
    /\ regProbeIDs' = [id \in Ids |-> {}]
    /\ offsetsData' = offsetsData \ {id \in Ids : regPids[id] # {} /\ regProbeIDs[id] # {}}
    /\ hooks' = hooks \ (UNION {regProbeIDs[id] : id \in {i \in Ids : regPids[i] # {}}} \ failed)

\* Faulty variant: the deferred cleanup without p.wg.Done()
loopClearNoWgDone(failed) ==
    /\ pc[Loop] = "cleanup"
    /\ \A t \in Mon : pc[t] = "idle"
    /\ failed \subseteq UNION {regProbeIDs[id] : id \in Ids}
    /\ faultsLeft' = faultsLeft - Cardinality(failed)
    /\ faultsLeft' >= 0
    /\ Clear(failed)
    /\ pc' = [pc EXCEPT ![Loop] = "cleared"]
    /\ NoReturn /\ UNCHANGED <<cfgExcludeSelf, senderVars, attachCall, wpaVars, envVars, subscribed, tpid, tpath, syncVars, done>>
\* Faulty variant: registry.Clear() without procMonitor.Stop() before it
loopClearNoWait(failed) ==
    /\ pc[Loop] = "cleanup"
    /\ failed \subseteq UNION {regProbeIDs[id] : id \in Ids}
    /\ faultsLeft' = faultsLeft - Cardinality(failed)
    /\ faultsLeft' >= 0
    /\ Clear(failed)
    /\ pc' = [pc EXCEPT ![Loop] = "exited"]
    /\ NoReturn /\ UNCHANGED <<cfgExcludeSelf, senderVars, attachCall, wpaVars, envVars, subscribed, tpid, tpath, syncVars, done>>
\* procMonitor.Stop() returns once no callback is running; then
\* registry.Clear() and wg.Done().
loopClear(failed) ==
    /\ pc[Loop] = "cleanup"
    /\ \A t \in Mon : pc[t] = "idle"
    /\ failed \subseteq UNION {regProbeIDs[id] : id \in Ids}
    /\ faultsLeft' = faultsLeft - Cardinality(failed)
    /\ faultsLeft' >= 0
    /\ Clear(failed)
    /\ pc' = [pc EXCEPT ![Loop] = "exited"]
    /\ NoReturn /\ UNCHANGED <<cfgExcludeSelf, senderVars, attachCall, wpaVars, envVars, subscribed, tpid, tpath, syncVars, done>>

\* Faulty variant: Stop returns without p.wg.Wait()
stopReturnNoWait ==
    /\ pc[Stopper] = "wait"
    /\ pc' = [pc EXCEPT ![Stopper] = "returned"]
    /\ NoReturn /\ UNCHANGED <<cfgExcludeSelf, senderVars, attachCall, wpaVars, envVars, subscribed, regVars, tpid, tpath,
                   syncVars, done, faultsLeft>>
\* wg.Wait() returns.
stopReturn ==
    /\ pc[Stopper] = "wait"
    /\ pc[Loop] = "exited"
    /\ pc' = [pc EXCEPT ![Stopper] = "returned"]
    /\ NoReturn /\ UNCHANGED <<cfgExcludeSelf, senderVars, attachCall, wpaVars, envVars, subscribed, regVars, tpid, tpath,
                   syncVars, done, faultsLeft>>

\* --------------------------------------------------------------------- spec
\* The host: processes start and exit.
EnvNext ==
    \/ \E p \in PIDs, path \in UserPaths, notify \in BOOLEAN : ProcStart(p, path, notify)
    \/ \E p \in PIDs, notify \in BOOLEAN : ProcExit(p, notify)

\* The callback runners T of the process monitor.
MonNext(T) ==
    \/ \E t \in T, p \in PIDs : handleProcessStart(t, p)
    \/ \E t \in T, p \in PIDs : handleProcessExit(t, p)

\* The steps of a Register/Unregister call in progress, whoever made it.
RegistryNext ==
    \/ \E t \in Threads : Register(t)
    \/ \E t \in Threads, outcome \in AnalysisErrors \cup {"nil"} : registerCBAnalyze(t, outcome)
    \/ \E t \in Threads, order \in FunctionOrders, failAt \in 0..5 :
          registerCBAttach(t, order, failAt)
    \/ \E t \in Threads, failed \in SUBSET hooks : unregisterCBDetach(t, failed)

\* The ticker branch of the main goroutine.
SyncNext ==
    \/ syncSnapshot
    \/ syncList
    \/ syncAttach
    \/ \E p \in PIDs : syncDetach(p)

\* Stop and the done branch of the main goroutine.
StopNext ==
    \/ Stop
    \/ loopUnsubscribe
    \/ \E failed \in SUBSET hooks : loopClear(failed)
    \/ stopReturn

\* Two callback runners handle notifications concurrently; hook calls may
\* fail.
InitNotify == InitWith({TRUE}, MaxHookFaults) /\ NewSender({FALSE}, {FALSE}) /\ StartWPA /\ NoAttachCall
NextNotify == EnvNext \/ MonNext(Mon) \/ RegistryNext
SpecNotify == InitNotify /\ [][NextNotify]_vars

\* The periodic sync on a host whose notifications are all lost; hook calls
\* may fail.
InitSweep == InitWith(BOOLEAN, MaxHookFaults) /\ NewSender({FALSE}, {FALSE}) /\ StartWPA /\ NoAttachCall
NextSweep ==
    \/ \E p \in PIDs, path \in UserPaths : ProcStart(p, path, FALSE)
    \/ \E p \in PIDs : ProcExit(p, FALSE)
    \/ RegistryNext
    \/ SyncNext
SpecSweep == InitSweep /\ [][NextSweep]_vars

\* The periodic sync as above, for an agent whose own executable is either
\* in the datadog-agent tree (PathSelf) or a Go binary elsewhere.
InitReconcile ==
    /\ cfgExcludeSelf \in BOOLEAN
    /\ faultsLeft = MaxHookFaults
    /\ procs \in {[p \in AllPids |-> IF p = SelfPid THEN path ELSE NoProc] :
                     path \in {PathSelf, PathA}}
    /\ notifs = {}
    /\ subscribed = TRUE
    /\ regPids = [id \in Ids |-> {}]
    /\ regProbeIDs = [id \in Ids |-> {}]
    /\ hooks = {}
    /\ offsetsData = {}
    /\ pc = [t \in Threads |-> IF t = Loop THEN "select" ELSE "idle"]
    /\ tpid = [t \in Threads |-> NoPid]
    /\ tpath = [t \in Threads |-> NoProc]
    /\ candidates = {} /\ attachTodo = {}
    /\ done = FALSE
    /\ lastErr = "none"
    /\ NewSender({FALSE}, {FALSE}) /\ StartWPA /\ NoAttachCall
SpecReconcile == InitReconcile /\ [][NextSweep]_vars

\* One callback runner and the shutdown; hook calls may fail.
InitStop == InitWith({TRUE}, MaxHookFaults) /\ NewSender({FALSE}, {FALSE}) /\ StartWPA /\ NoAttachCall
NextStop == EnvNext \/ MonNext({"m1"}) \/ RegistryNext \/ StopNext
SpecStop == InitStop /\ [][NextStop]_vars

\* A client of the package.
ApiNext == \E p \in AllPids, enabled \in BOOLEAN : GoTLSAttachPID(p, enabled)

\* One callback runner and a client that calls GoTLSAttachPID; every hook
\* call succeeds.
InitAPI == InitWith({TRUE}, 0) /\ NewSender({FALSE}, {FALSE}) /\ StartWPA /\ NoAttachCall
NextAPI == EnvNext \/ MonNext({"m1"}) \/ RegistryNext \/ ApiNext
SpecAPI == InitAPI /\ [][NextAPI]_vars

\* One callback runner, the periodic sync and the shutdown; every hook call
\* succeeds.
InitShutdown == InitWith({TRUE}, 0) /\ NewSender({FALSE}, {FALSE}) /\ StartWPA /\ NoAttachCall
NextShutdown == EnvNext \/ MonNext({"m1"}) \/ RegistryNext \/ SyncNext \/ StopNext
SpecShutdown == InitShutdown /\ [][NextShutdown]_vars

\* One callback runner and the periodic sync; every hook call succeeds.
Init == InitWith(BOOLEAN, 0) /\ NewSender({FALSE}, {FALSE}) /\ StartWPA /\ NoAttachCall
Next == EnvNext \/ MonNext({"m1"}) \/ RegistryNext \/ SyncNext
Spec == Init /\ [][Next]_vars


\* --------------------------------------------------------------- log sender
\* Sender (package sender): run takes payloads from inputChan and hands each
\* to the destination senders. destSender.Send and destSender.NonBlockingSend
\* answer true (accepted) or false; which one is the destination's choice.
\* The pipeline puts the next payload on inputChan.
Enqueue ==
    /\ ~inputClosed
    /\ produced < MaxPayloads
    /\ produced' = produced + 1
    /\ inputChan' = Append(inputChan, produced + 1)
    /\ UNCHANGED <<inputClosed, senderDoneChanSet, flushWgSet, flushWgDone, senderPc, payload, sent,
                   destIdx, lastSendSucceeded, destInput, dropped, destStopped,
                   senderDoneWg, wgHeld, egress, sinkClosed, stopPc>>
    /\ UNCHANGED <<vars, attachCall, wpaVars>>

\* run: `for payload := range s.inputChan` yields the next payload; a new
\* senderDoneWg and sent = false.
runRange ==
    /\ senderPc = "range"
    /\ inputChan # <<>>
    /\ payload' = Head(inputChan)
    /\ inputChan' = Tail(inputChan)
    /\ sent' = FALSE
    /\ senderDoneWg' = 0 /\ wgHeld' = 0
    /\ destIdx' = 1
    /\ senderPc' = "reliable"
    /\ UNCHANGED <<inputClosed, produced, senderDoneChanSet, flushWgSet, flushWgDone, lastSendSucceeded,
                   destInput, dropped, destStopped, egress, sinkClosed, stopPc>>
    /\ UNCHANGED <<vars, attachCall, wpaVars>>

\* run: the range loop ends when inputChan is closed and empty.
runRangeEnds == inputClosed /\ inputChan = <<>>

runRangeEnd ==
    /\ senderPc = "range"
    /\ runRangeEnds
    /\ senderPc' = "stop_senders"
    /\ UNCHANGED <<inputChan, inputClosed, produced, senderDoneChanSet, flushWgSet, flushWgDone, payload,
                   sent, destIdx, lastSendSucceeded, destInput, dropped, destStopped,
                   senderDoneWg, wgHeld, egress, sinkClosed, stopPc>>
    /\ UNCHANGED <<vars, attachCall, wpaVars>>

\* Where run goes after the reliable destSender i, with `s` the value of
\* sent: the next destSender, or, after the last, the sleep of the poll loop
\* (lines 103-108) or, once sent, the loop of line 111.
\* Faulty variant: the poll loop ends after one pass
afterReliableOnePass(i, s) ==
    IF i < NumReliable THEN <<"reliable", i + 1>> ELSE <<"buffer", 1>>
afterReliable(i, s) ==
    IF i < NumReliable THEN <<"reliable", i + 1>>
    ELSE IF s THEN <<"buffer", 1>> ELSE <<"sleep", 1>>

\* Where run goes after destSender i of the loop of line 111.
afterBuffer(i) ==
    IF i < NumReliable THEN <<"buffer", i + 1>> ELSE <<"unreliable", 1>>

\* Where run goes after the unreliable destSender i.
afterUnreliable(i) ==
    IF i < NumUnreliable THEN <<"unreliable", i + 1>> ELSE <<"wait", 1>>

goto(to) == senderPc' = to[1] /\ destIdx' = to[2]

\* run, lines 90-101: destSender.Send(payload) on the reliable destSender
\* destIdx answers ok.
runSend(ok) ==
    /\ senderPc = "reliable"
    /\ lastSendSucceeded' = [lastSendSucceeded EXCEPT ![destIdx] = ok]
    /\ IF ok
       THEN /\ destInput' = [destInput EXCEPT ![destIdx] = @ \cup {payload}]
            /\ sent' = TRUE
            /\ IF senderDoneChanSet
               THEN /\ senderDoneWg' = senderDoneWg + 1
                    /\ senderPc' = "reliable_done" /\ destIdx' = destIdx
               ELSE /\ senderDoneWg' = senderDoneWg
                    /\ goto(afterReliable(destIdx, TRUE))
       ELSE /\ goto(afterReliable(destIdx, sent))
            /\ UNCHANGED <<destInput, sent, senderDoneWg>>
    /\ UNCHANGED <<inputChan, inputClosed, produced, senderDoneChanSet, flushWgSet, flushWgDone, payload,
                   dropped, destStopped, wgHeld, egress, sinkClosed, stopPc>>
    /\ UNCHANGED <<vars, attachCall, wpaVars>>

\* run, line 107: the sleep of the poll loop, then another pass.
runSleep ==
    /\ senderPc = "sleep"
    /\ senderPc' = "reliable" /\ destIdx' = 1
    /\ UNCHANGED <<inputChan, inputClosed, produced, senderDoneChanSet, flushWgSet, flushWgDone, payload,
                   sent, lastSendSucceeded, destInput, dropped, destStopped,
                   senderDoneWg, wgHeld, egress, sinkClosed, stopPc>>
    /\ UNCHANGED <<vars, attachCall, wpaVars>>

\* Faulty variant: the loop of line 111 without the test of lastSendSucceeded
runBufferAll(ok) ==
    /\ senderPc = "buffer"
    /\ IF ok
       THEN /\ destInput' = [destInput EXCEPT ![destIdx] = @ \cup {payload}]
            /\ UNCHANGED dropped
       ELSE /\ dropped' = dropped \cup {<<destIdx, payload>>}
            /\ UNCHANGED destInput
    /\ goto(afterBuffer(destIdx))
    /\ UNCHANGED <<inputChan, inputClosed, produced, senderDoneChanSet, flushWgSet, flushWgDone, payload,
                   sent, lastSendSucceeded, destStopped, senderDoneWg, wgHeld, egress,
                   sinkClosed, stopPc>>
    /\ UNCHANGED <<vars, attachCall, wpaVars>>
\* run, lines 111-120: a reliable destSender whose last Send failed gets the
\* payload by NonBlockingSend, which answers ok.
runBuffer(ok) ==
    /\ senderPc = "buffer"
    /\ IF lastSendSucceeded[destIdx]
       THEN ok /\ UNCHANGED <<destInput, dropped>>
       ELSE IF ok
            THEN /\ destInput' = [destInput EXCEPT ![destIdx] = @ \cup {payload}]
                 /\ UNCHANGED dropped
            ELSE /\ dropped' = dropped \cup {<<destIdx, payload>>}
                 /\ UNCHANGED destInput
    /\ goto(afterBuffer(destIdx))
    /\ UNCHANGED <<inputChan, inputClosed, produced, senderDoneChanSet, flushWgSet, flushWgDone, payload,
                   sent, lastSendSucceeded, destStopped, senderDoneWg, wgHeld, egress,
                   sinkClosed, stopPc>>
    /\ UNCHANGED <<vars, attachCall, wpaVars>>

\* run, lines 123-132: NonBlockingSend on the unreliable destSender destIdx
\* answers ok.
runUnreliable(ok) ==
    /\ senderPc = "unreliable"
    /\ IF ok
       THEN /\ destInput' = [destInput EXCEPT ![NumReliable + destIdx] = @ \cup {payload}]
            /\ goto(afterUnreliable(destIdx))
            /\ UNCHANGED <<dropped, senderDoneWg>>
       ELSE /\ dropped' = dropped \cup {<<NumReliable + destIdx, payload>>}
            /\ UNCHANGED destInput
            /\ IF senderDoneChanSet
               THEN /\ senderDoneWg' = senderDoneWg + 1
                    /\ senderPc' = "unreliable_done" /\ destIdx' = destIdx
               ELSE /\ senderDoneWg' = senderDoneWg
                    /\ goto(afterUnreliable(destIdx))
    /\ UNCHANGED <<inputChan, inputClosed, produced, senderDoneChanSet, flushWgSet, flushWgDone, payload,
                   sent, lastSendSucceeded, destStopped, wgHeld, egress, sinkClosed, stopPc>>
    /\ UNCHANGED <<vars, attachCall, wpaVars>>

\* run, lines 98 and 129: `s.senderDoneChan <- senderDoneWg` completes when
\* the reader of senderDoneChan receives.
senderDoneChanReceive ==
    /\ senderPc \in {"reliable_done", "unreliable_done"}
    /\ wgHeld' = wgHeld + 1
    /\ IF senderPc = "reliable_done"
       THEN goto(afterReliable(destIdx, TRUE))
       ELSE goto(afterUnreliable(destIdx))
    /\ UNCHANGED <<inputChan, inputClosed, produced, senderDoneChanSet, flushWgSet, flushWgDone, payload,
                   sent, lastSendSucceeded, destInput, dropped, destStopped,
                   senderDoneWg, egress, sinkClosed, stopPc>>
    /\ UNCHANGED <<vars, attachCall, wpaVars>>

\* The reader of senderDoneChan calls Done on a wait group it received.
senderDoneWgDone ==
    /\ wgHeld > 0
    /\ wgHeld' = wgHeld - 1
    /\ senderDoneWg' = senderDoneWg - 1
    /\ UNCHANGED <<inputChan, inputClosed, produced, senderDoneChanSet, flushWgSet, flushWgDone, senderPc,
                   payload, sent, destIdx, lastSendSucceeded, destInput, dropped,
                   destStopped, egress, sinkClosed, stopPc>>
    /\ UNCHANGED <<vars, attachCall, wpaVars>>

\* Faulty variant: s.flushWg.Done() without senderDoneWg.Wait() before it
runEgressNoWait ==
    /\ senderPc = "wait"
    /\ flushWgDone' = IF senderDoneChanSet /\ flushWgSet
                      THEN [flushWgDone EXCEPT ![payload] = @ + 1]
                      ELSE flushWgDone
    /\ egress' = egress \cup {payload}
    /\ senderPc' = "range"
    /\ UNCHANGED <<inputChan, inputClosed, produced, senderDoneChanSet, flushWgSet, payload,
                   sent, destIdx, lastSendSucceeded, destInput, dropped, destStopped,
                   senderDoneWg, wgHeld, sinkClosed, stopPc>>
    /\ UNCHANGED <<vars, attachCall, wpaVars>>
\* run, lines 138-144: when both senderDoneChan and flushWg are set,
\* senderDoneWg.Wait() and then s.flushWg.Done(); then ReportComponentEgress.
runEgress ==
    /\ senderPc = "wait"
    /\ (senderDoneChanSet /\ flushWgSet) => senderDoneWg = 0
    /\ flushWgDone' = IF senderDoneChanSet /\ flushWgSet
                      THEN [flushWgDone EXCEPT ![payload] = @ + 1]
                      ELSE flushWgDone
    /\ egress' = egress \cup {payload}
    /\ senderPc' = "range"
    /\ UNCHANGED <<inputChan, inputClosed, produced, senderDoneChanSet, flushWgSet, payload,
                   sent, destIdx, lastSendSucceeded, destInput, dropped, destStopped,
                   senderDoneWg, wgHeld, sinkClosed, stopPc>>
    /\ UNCHANGED <<vars, attachCall, wpaVars>>

\* run, lines 148-153: Stop of every reliable and unreliable destSender.
runStopSenders ==
    /\ senderPc = "stop_senders"
    /\ destStopped' = [d \in Dests |-> TRUE]
    /\ senderPc' = "close_sink"
    /\ UNCHANGED <<inputChan, inputClosed, produced, senderDoneChanSet, flushWgSet, flushWgDone, payload,
                   sent, destIdx, lastSendSucceeded, destInput, dropped,
                   senderDoneWg, wgHeld, egress, sinkClosed, stopPc>>
    /\ UNCHANGED <<vars, attachCall, wpaVars>>

\* run, line 154.
runCloseSink ==
    /\ senderPc = "close_sink"
    /\ sinkClosed' = TRUE
    /\ senderPc' = "send_done"
    /\ UNCHANGED <<inputChan, inputClosed, produced, senderDoneChanSet, flushWgSet, flushWgDone, payload,
                   sent, destIdx, lastSendSucceeded, destInput, dropped, destStopped,
                   senderDoneWg, wgHeld, egress, stopPc>>
    /\ UNCHANGED <<vars, attachCall, wpaVars>>

\* Sender.Stop, line 73: close(s.inputChan).
SenderStop ==
    /\ stopPc = "idle"
    /\ inputClosed' = TRUE
    /\ stopPc' = "wait_done"
    /\ UNCHANGED <<inputChan, produced, senderDoneChanSet, flushWgSet, flushWgDone, senderPc, payload,
                   sent, destIdx, lastSendSucceeded, destInput, dropped, destStopped,
                   senderDoneWg, wgHeld, egress, sinkClosed>>
    /\ UNCHANGED <<vars, attachCall, wpaVars>>

\* Sender.Stop returns on `<-s.done`, which meets `s.done <- struct{}{}` of
\* run (line 155): s.done has no buffer.
\* Faulty variant: Stop returns without reading s.done
SenderStopReturnsEarly == TRUE
SenderStopReceives == senderPc = "send_done"

SenderStopReturn ==
    /\ stopPc = "wait_done"
    /\ SenderStopReceives
    /\ stopPc' = "returned"
    /\ senderPc' = IF senderPc = "send_done" THEN "exited" ELSE senderPc
    /\ UNCHANGED <<inputChan, inputClosed, produced, senderDoneChanSet, flushWgSet, flushWgDone, payload,
                   sent, destIdx, lastSendSucceeded, destInput, dropped, destStopped,
                   senderDoneWg, wgHeld, egress, sinkClosed>>
    /\ UNCHANGED <<vars, attachCall, wpaVars>>

runNext ==
    \/ runRange
    \/ runRangeEnd
    \/ \E ok \in BOOLEAN : runSend(ok)
    \/ runSleep
    \/ \E ok \in BOOLEAN : runBuffer(ok)
    \/ \E ok \in BOOLEAN : runUnreliable(ok)
    \/ runEgress
    \/ runStopSenders
    \/ runCloseSink

\* The sender with its pipeline, the reader of senderDoneChan and a caller
\* of Stop.
InitSender == InitWith({TRUE}, 0) /\ NewSender(BOOLEAN, BOOLEAN) /\ StartWPA /\ NoAttachCall
NextSender ==
    \/ Enqueue
    \/ runNext
    \/ senderDoneChanReceive
    \/ senderDoneWgDone
    \/ SenderStop
    \/ SenderStopReturn
SpecSender == InitSender /\ [][NextSender]_senderVars


\* ------------------------------------------------------- attachHooks alone
\* attachHooks as a function of its arguments: the binary (with the return
\* locations the inspection found), the iteration order of functionToProbes
\* and the AddHook call that fails, if any.
InitAttachHooks ==
    /\ InitWith({TRUE}, 0) /\ NewSender({FALSE}, {FALSE}) /\ StartWPA
    /\ attachCall \in UNION {
            {[path |-> path, order |-> order, failAt |-> failAt, called |-> FALSE,
              result |-> [err |-> FALSE, probeIDs |-> <<>>, added |-> {}]] :
                 failAt \in 0..Len(HookPlan(path, order))} :
            path \in AnalyzedPaths, order \in FunctionOrders}

callAttachHooks ==
    /\ ~attachCall.called
    /\ attachCall.path \in AnalyzedPaths
    /\ attachCall' = [attachCall EXCEPT
                         !.called = TRUE,
                         !.result = attachHooks(attachCall.path, attachCall.order,
                                                attachCall.failAt)]
    /\ UNCHANGED <<vars, senderVars, wpaVars>>

SpecAttachHooks == InitAttachHooks /\ [][callAttachHooks]_attachCall

\* ------------------------------------------------- WPA autoscalers controller
isWPACRDNotFoundError(err) ==
    /\ err.type = "StatusError"
    /\ err.reason = "NotFound"
    /\ err.group = WPAGroup
    /\ err.kind = WPAResource

\* tryCheckWPACRD with check() returning err: nil, the error itself (to be
\* retried) or the error wrapped by backoff.Permanent.
tryCheckWPACRD(err) ==
    IF err = NilError THEN "nil"
    ELSE IF isWPACRDNotFoundError(err) THEN "retry"
    ELSE "permanent"

\* backoff.ExponentialBackOff with RandomizationFactor 0: NextBackOff answers
\* Stop once MaxElapsedTime, when it is not 0, has passed, and the current
\* interval otherwise; the interval then grows by the multiplier up to
\* MaxInterval.
BackOffStop == -1
\* Faulty variant: a MaxElapsedTime of 0 stops the retries at once
NextBackOffZeroIsLimit(interval, elapsedTime) ==
    IF elapsedTime >= crdCheckMaxElapsedTime THEN BackOffStop ELSE interval
NextBackOff(interval, elapsedTime) ==
    IF crdCheckMaxElapsedTime # 0 /\ elapsedTime > crdCheckMaxElapsedTime
    THEN BackOffStop
    ELSE interval

incrementCurrentInterval(interval) ==
    IF interval * crdCheckMultiplier >= crdCheckMaxInterval
    THEN crdCheckMaxInterval
    ELSE interval * crdCheckMultiplier

\* waitForWPACRD, one turn of the loop of backoff.RetryNotify: the operation
\* runs and check() returns err. waitForWPACRD drops what RetryNotify returns.
wpaCheck(err) ==
    /\ wpaPc = "check"
    /\ checkErr' = err
    /\ LET r == tryCheckWPACRD(err)
           next == NextBackOff(currentInterval, elapsed)
       IN  IF r = "nil"
           THEN /\ retryErr' = "nil"
                /\ wpaPc' = "enable"
                /\ UNCHANGED <<attempt, delay, currentInterval>>
           ELSE IF r = "permanent" \/ next = BackOffStop
           THEN /\ retryErr' = "error"
                /\ wpaPc' = "enable"
                /\ UNCHANGED <<attempt, delay, currentInterval>>
           ELSE /\ attempt' = IF attempt < MaxChecks THEN attempt + 1 ELSE attempt
                /\ delay' = next
                /\ currentInterval' = incrementCurrentInterval(currentInterval)
                /\ wpaPc' = "sleep"
                /\ UNCHANGED retryErr
    /\ UNCHANGED <<elapsed, handlers, wpaEnabled, wpaObj, handlerPc, updateCall, wpaQueue, toStore>>
    /\ UNCHANGED <<vars, senderVars, attachCall>>

\* RetryNotify waits for the delay, then runs the operation again.
wpaSleep ==
    /\ wpaPc = "sleep"
    /\ elapsed' = IF attempt < MaxChecks THEN elapsed + delay ELSE elapsed
    /\ wpaPc' = "check"
    /\ UNCHANGED <<checkErr, currentInterval, delay, attempt, retryErr, handlers, wpaEnabled,
                   wpaObj, handlerPc, updateCall, wpaQueue, toStore>>
    /\ UNCHANGED <<vars, senderVars, attachCall>>

\* runWPA after waitForWPACRD has returned: enableWPA. AddEventHandler
\* answers ok; on an error runWPA returns.
enableWPA(ok) ==
    /\ wpaPc = "enable"
    /\ handlers' = ok
    /\ wpaEnabled' = ok
    /\ wpaPc' = IF ok THEN "run" ELSE "returned"
    /\ UNCHANGED <<checkErr, currentInterval, delay, attempt, elapsed, retryErr,
                   wpaObj, handlerPc, updateCall, wpaQueue, toStore>>
    /\ UNCHANGED <<vars, senderVars, attachCall>>

UnstructuredIntoWPA(obj) == obj.convertible
\* The external metrics a WPA asks for.
InspectWPA(wpa) == {wpa.config}
\* Whether the metrics-relevant configuration of the two objects differs.
AutoscalerMetricsUpdate(new, old) == new.config # old.config
deleteFromLocalStore(store, toDelete) == store \ toDelete
enqueueWPA(queue, wpa) == queue \cup {wpa.key}

\* The informer, started by runWPA, sees the WPA created and calls AddFunc.
informerAdd(obj) ==
    /\ wpaPc = "run" /\ handlers /\ handlerPc = "idle"
    /\ wpaObj = NoObject
    /\ wpaObj' = obj
    /\ handlerPc' = "add"
    /\ UNCHANGED <<wpaPc, checkErr, currentInterval, delay, attempt, elapsed, retryErr,
                   handlers, wpaEnabled, updateCall, wpaQueue, toStore>>
    /\ UNCHANGED <<vars, senderVars, attachCall>>

\* The informer sees the WPA changed (or resyncs) and calls UpdateFunc with
\* the object it had and the new one.
informerUpdate(obj) ==
    /\ wpaPc = "run" /\ handlers /\ handlerPc = "idle"
    /\ wpaObj # NoObject
    /\ updateCall' = [old |-> wpaObj, obj |-> obj]
    /\ wpaObj' = obj
    /\ handlerPc' = "update"
    /\ UNCHANGED <<wpaPc, checkErr, currentInterval, delay, attempt, elapsed, retryErr,
                   handlers, wpaEnabled, wpaQueue, toStore>>
    /\ UNCHANGED <<vars, senderVars, attachCall>>

addWPAutoscaler ==
    /\ handlerPc = "add"
    /\ wpaQueue' = IF UnstructuredIntoWPA(wpaObj) THEN enqueueWPA(wpaQueue, wpaObj) ELSE wpaQueue
    /\ handlerPc' = "idle"
    /\ UNCHANGED <<wpaPc, checkErr, currentInterval, delay, attempt, elapsed, retryErr,
                   handlers, wpaEnabled, wpaObj, updateCall, toStore>>
    /\ UNCHANGED <<vars, senderVars, attachCall>>

\* What updateWPAutoscaler(old, obj) leaves in the local store and in the
\* queue. Both newAutoscaler and oldAutoscaler are converted from obj
\* (lines 247 and 252); old is not read.
updateWPAutoscalerResult(old, obj, store, queue) ==
    LET newAutoscaler == obj
        oldAutoscaler == obj
    IN  IF ~UnstructuredIntoWPA(obj)
        THEN [store |-> store, queue |-> queue]
        ELSE IF ~UnstructuredIntoWPA(obj)
        THEN [store |-> store, queue |-> enqueueWPA(queue, newAutoscaler)]
        ELSE IF ~AutoscalerMetricsUpdate(newAutoscaler, oldAutoscaler)
        THEN [store |-> store, queue |-> queue]
        ELSE [store |-> deleteFromLocalStore(store, InspectWPA(oldAutoscaler)),
              queue |-> enqueueWPA(queue, newAutoscaler)]

updateWPAutoscaler ==
    /\ handlerPc = "update"
    /\ LET r == updateWPAutoscalerResult(updateCall.old, updateCall.obj, toStore, wpaQueue)
       IN  toStore' = r.store /\ wpaQueue' = r.queue
    /\ handlerPc' = "idle"
    /\ UNCHANGED <<wpaPc, checkErr, currentInterval, delay, attempt, elapsed, retryErr,
                   handlers, wpaEnabled, wpaObj, updateCall>>
    /\ UNCHANGED <<vars, senderVars, attachCall>>

\* workerWPA: processNextWPA takes a key and syncWPA stores the metrics of
\* the object the lister has for it.
processNextWPA(key) ==
    /\ wpaPc = "run"
    /\ key \in wpaQueue
    /\ wpaQueue' = wpaQueue \ {key}
    /\ toStore' = IF UnstructuredIntoWPA(wpaObj) THEN toStore \cup InspectWPA(wpaObj) ELSE toStore
    /\ UNCHANGED <<wpaPc, checkErr, currentInterval, delay, attempt, elapsed, retryErr,
                   handlers, wpaEnabled, wpaObj, handlerPc, updateCall>>
    /\ UNCHANGED <<vars, senderVars, attachCall>>

\* stopCh is closed: wait.Until returns and runWPA with it.
wpaStop ==
    /\ wpaPc = "run"
    /\ wpaPc' = "returned"
    /\ UNCHANGED <<checkErr, currentInterval, delay, attempt, elapsed, retryErr, handlers,
                   wpaEnabled, wpaObj, handlerPc, updateCall, wpaQueue, toStore>>
    /\ UNCHANGED <<vars, senderVars, attachCall>>

InitWPA == InitWith({TRUE}, 0) /\ NewSender({FALSE}, {FALSE}) /\ StartWPA /\ NoAttachCall
NextWPA ==
    \/ \E err \in CheckErrors : wpaCheck(err)
    \/ wpaSleep
    \/ \E ok \in BOOLEAN : enableWPA(ok)
    \/ \E obj \in WPAObjects \cup {Malformed} : informerAdd(obj)
    \/ \E obj \in WPAObjects \cup {Malformed} : informerUpdate(obj)
    \/ addWPAutoscaler
    \/ updateWPAutoscaler
    \/ \E key \in {WPAKey} : processNextWPA(key)
    \/ wpaStop
SpecWPA == InitWPA /\ [][NextWPA]_wpaVars


\* ------------------------------------------------------------------ claims
HooksOf(id) == {h \in hooks : h.bin = id}
FirstCB == {"analyze", "attach_hooks"}
InFirstCB(t, id) == pc[t] \in FirstCB /\ PathID(tpath[t]) = id
\* Steps: the first-register callback of id starts / returns in thread t,
\* the last-unregister callback of id is invoked in thread t.
FirstCBStarts(t, id) == pc[t] = "register" /\ PathID(tpath[t]) = id /\ pc'[t] = "analyze"
FirstCBReturns(t, id) == InFirstCB(t, id) /\ pc'[t] \notin FirstCB
LastCBStarts(t, id) ==
    pc[t] # "detach_hooks" /\ pc'[t] = "detach_hooks" /\ PathID(tpath'[t]) = id
LastCBReturns(t, id) ==
    pc[t] = "detach_hooks" /\ PathID(tpath[t]) = id /\ pc'[t] # "detach_hooks"
Up(id) == regPids[id] = {} /\ regPids'[id] # {}
Down(id) == regPids[id] # {} /\ regPids'[id] = {}

\* C1 (as stated): the first-register callback of an identity returns in
\* exactly the steps that take its interested set from empty to non-empty,
\* the last-unregister callback is invoked in exactly the steps that take it
\* from non-empty to empty, and neither runs at any other time.
C1_CallbacksOnlyAtTransitions ==
    [][\A id \in Ids :
          /\ Up(id) <=> \E t \in Threads : FirstCBReturns(t, id)
          /\ Down(id) <=> \E t \in Threads : LastCBStarts(t, id)]_vars

\* C1 (amended): the first-register callback runs once for each step from
\* empty to non-empty and, besides, once for each Register that finds the
\* set empty and whose callback fails, which leaves the set empty; it never
\* starts or returns while the set is non-empty or while another run for the
\* identity is in progress. The last-unregister callback is invoked in
\* exactly the steps that take the set from non-empty to empty.
C1_CallbacksAtTransitionsOrFailure ==
    [][\A id \in Ids :
          /\ Up(id) => Cardinality({t \in Threads : FirstCBReturns(t, id)}) = 1
          /\ \A t \in Threads :
                FirstCBReturns(t, id) =>
                   /\ regPids[id] = {}
                   /\ Up(id) \/ (regPids'[id] = {} /\ lastErr' # "none")
          /\ \A t \in Threads :
                FirstCBStarts(t, id) =>
                   /\ regPids[id] = {}
                   /\ ~\E u \in Threads : InFirstCB(u, id)
          /\ Down(id) <=> Cardinality({t \in Threads : LastCBStarts(t, id)}) = 1]_vars

\* A first-register callback has just failed while the other identity is
\* referenced by two PIDs.
C1_Witness ==
    /\ lastErr \in AnalysisErrors
    /\ \E id \in Ids : Cardinality(regPids[id]) = 2

SectionHeld(id) ==
    \E t \in Threads :
       pc[t] \in {"analyze", "attach_hooks", "detach_hooks"} /\ PathID(tpath[t]) = id
WaitsInRegister(t, id) == pc[t] = "register" /\ PathID(tpath[t]) = id
\* Steps in which thread t calls DetachPID(p).
DetachCall(t, p) ==
    \/ /\ t \in Mon /\ pc[t] = "idle" /\ subscribed'
       /\ [kind |-> "exit", pid |-> p] \in notifs \ notifs'
    \/ /\ t = Loop /\ pc[t] = "sync_detach" /\ p \in candidates \ candidates'
\* The probes a successful attachHooks installs for an identity.
AllProbes(id) == Range(HookPlan(HostPath(id), <<ReadGoTLSFunc, WriteGoTLSFunc, CloseGoTLSFunc>>))

\* C2: whenever no callback of an identity is in progress, hooks of the
\* identity are installed if and only if its interested set is non-empty.
C2_HooksIffInterested ==
    \A id \in Ids : ~SectionHeld(id) => (HooksOf(id) # {} <=> regPids[id] # {})

\* C3: when a first registration returns the hook-install error, no hook of
\* the identity is installed and its lookup-table entry is absent.
C3_AllOrNothing ==
    [][\A t \in Threads, id \in Ids :
          (FirstCBReturns(t, id) /\ lastErr' = "ErrAttachHooks") =>
             (HooksOf(id)' = {} /\ id \notin offsetsData')]_vars


\* C4 (as stated): when a first registration returns while the AttachPID of
\* another PID of the same binary waits in Register, the entry exists with
\* the PID of the first call, so that the waiting call joins it and the
\* binary is analysed and hooked exactly once for all of them.
C4_OneAnalysisForAll ==
    [][\A t, u \in Threads, id \in Ids :
          (FirstCBReturns(t, id) /\ WaitsInRegister(u, id) /\ tpid[u] # tpid[t]) =>
             tpid[t] \in regPids'[id]]_vars

\* C4 (amended): at most one first-register callback of an identity is in
\* progress; a call that finds the section held waits; if the callback in
\* progress succeeds the entry holds its PID, and a call that then gets the
\* section with the entry in place adds its PID without analysis or hook
\* install. (If the callback fails, the next call runs the analysis again.)
C4_OneAnalysisIfFirstSucceeds ==
    [][\A id \in Ids :
          /\ Cardinality({t \in Threads : InFirstCB(t, id)}) <= 1
          /\ \A u \in Threads :
                (WaitsInRegister(u, id) /\ SectionHeld(id)) => pc'[u] = "register"
          /\ \A t, u \in Threads :
                (FirstCBReturns(t, id) /\ WaitsInRegister(u, id) /\ lastErr' = "none") =>
                   regPids'[id] = {tpid[t]}
          /\ \A u \in Threads :
                (WaitsInRegister(u, id) /\ regPids[id] # {} /\ pc'[u] # "register") =>
                   /\ pc'[u] \notin FirstCB
                   /\ hooks' = hooks /\ offsetsData' = offsetsData
                   /\ regProbeIDs' = regProbeIDs
                   /\ regPids' = [regPids EXCEPT ![id] = @ \cup {tpid[u]}]]_vars

\* Two callback runners are in AttachPID for two PIDs of one untracked
\* binary: one installs the hooks, the other waits in Register.
C4_Witness ==
    \E t, u \in Mon, id \in Ids :
       /\ pc[t] = "attach_hooks" /\ PathID(tpath[t]) = id
       /\ WaitsInRegister(u, id) /\ tpid[u] # tpid[t]

\* C5: once Stop has returned no hook is installed and the registry has no
\* entry.
C5_StopLeavesNothing ==
    pc[Stopper] = "returned" => (hooks = {} /\ \A id \in Ids : regPids[id] = {})

\* The sweep lists the processes in this step.
ListStep == pc[Loop] = "sync_list" /\ pc'[Loop] # "sync_list"
\* A tracked PID whose process (the one that runs the identity's binary) is gone.
Stale(p, id) == p \in regPids[id] /\ procs[p] # HostPath(id)

SweepAttachReturns(e) ==
    /\ pc[Loop] \in {"register", "attach_hooks"}
    /\ pc'[Loop] \notin {"register", "analyze", "attach_hooks"}
    /\ lastErr' = e
\* What the sweep does with the PIDs it is to attach: AttachPID for each,
\* and the PID is tracked and its binary hooked when the call returns nil;
\* on the duplicate path nothing changes. The sweep is over only when it
\* has called AttachPID for every such PID.
SweepAttaches ==
    /\ pc[Loop] = "sync_attach" =>
          \A p \in attachTodo \ attachTodo' :
             procs[p] \in UserPaths =>
                (pc'[Loop] = "register" /\ tpid'[Loop] = p /\ tpath'[Loop] = procs[p])
    /\ pc'[Loop] = "select" => attachTodo' = {}
    /\ SweepAttachReturns("none") =>
          \A id \in {PathID(tpath[Loop])} :
             /\ tpid[Loop] \in regPids'[id]
             /\ id \in offsetsData'
             /\ HooksOf(id)' = AllProbes(id)
    /\ SweepAttachReturns("ErrPathIsAlreadyRegistered") =>
          /\ tpid[Loop] \in regPids[PathID(tpath[Loop])]
          /\ UNCHANGED regVars

C8_DuplicateIsNoOp ==
    [][\A t \in Threads, id \in Ids :
          (WaitsInRegister(t, id) /\ tpid[t] \in regPids[id] /\ pc'[t] # "register") =>
             /\ UNCHANGED regVars
             /\ pc'[t] \notin {"analyze", "attach_hooks", "detach_hooks"}
             /\ lastErr' = "ErrPathIsAlreadyRegistered"]_vars

\* A Register call has just reported a duplicate for a PID that is tracked.
C8_Witness ==
    lastErr = "ErrPathIsAlreadyRegistered" /\ GetRegisteredProcesses # {}

\* C9: DetachPID of a PID that is in no interested set returns "not found",
\* runs no callback and changes nothing.
C9_DetachUntracked ==
    [][\A t \in Threads, p \in PIDs :
          (DetachCall(t, p) /\ p \notin GetRegisteredProcesses) =>
             /\ lastErr' = "ErrPathIsNotRegistered"
             /\ UNCHANGED regVars
             /\ pc'[t] \notin {"analyze", "attach_hooks", "detach_hooks"}]_vars

\* A DetachPID call has just returned "not found" while another PID is
\* tracked and hooked.
C9_Witness ==
    lastErr = "ErrPathIsNotRegistered" /\ GetRegisteredProcesses # {} /\ hooks # {}

\* C10: a first-register callback that fails (it leaves no offsets_data
\* entry) makes Register return an error; no entry is created and the PID
\* is not tracked for the identity.
C10_FailedFirstRegister ==
    [][\A t \in Threads, id \in Ids :
          (FirstCBReturns(t, id) /\ (id \notin offsetsData' \/ lastErr' # "none")) =>
             /\ lastErr' \in AnalysisErrors \cup {"ErrAttachHooks"}
             /\ id \notin offsetsData'
             /\ regPids'[id] = {} /\ regProbeIDs'[id] = {}]_vars

\* A first registration has just failed in attachHooks, and nothing is
\* tracked.
C10_Witness ==
    lastErr = "ErrAttachHooks" /\ GetRegisteredProcesses = {}


\* C11: when the first-register callback of an identity fails in the
\* analysis, the identity is left without entry and with its section free,
\* so that a Register call waiting for it is the next to run; and a Register
\* call that finds no entry and the section free always starts the analysis
\* (it is never refused).
C11_RetryAfterFailedAnalysis ==
    [][\A id \in Ids :
          /\ \A t, u \in Threads :
                (FirstCBReturns(t, id) /\ lastErr' \in AnalysisErrors /\ WaitsInRegister(u, id)) =>
                   /\ regPids'[id] = {}
                   /\ pc'[u] = "register" /\ tpath'[u] = tpath[u]
                   /\ \A v \in Threads : pc'[v] \notin {"analyze", "attach_hooks", "detach_hooks"}
                                            \/ PathID(tpath'[v]) # id
          /\ \A u \in Threads :
                (WaitsInRegister(u, id) /\ regPids[id] = {} /\ pc'[u] # "register") =>
                   (pc'[u] = "analyze" /\ tpath'[u] = tpath[u] /\ lastErr' = "none")]_vars

\* The analysis of an identity has just failed and a second Register call
\* for the same binary is about to run.
C11_Witness ==
    /\ lastErr \in AnalysisErrors
    /\ \E u \in Mon, id \in Ids :
          /\ WaitsInRegister(u, id) /\ regPids[id] = {} /\ ~SectionHeld(id)
          /\ \A p \in PIDs : procs[p] = tpath[u]


\* C12 (invariant I4): no PID is in the interested set of two identities.
C12_PidInOneSet ==
    \A p \in AllPids : Cardinality({id \in Ids : p \in regPids[id]}) <= 1


\* Steps in which thread t calls AttachPID(p).
AttachCall(t, p) ==
    \/ /\ t \in Mon /\ pc[t] = "idle" /\ subscribed'
       /\ [kind |-> "exec", pid |-> p] \in notifs \ notifs'
    \/ /\ t = Loop /\ pc[t] = "sync_attach" /\ p \in attachTodo \ attachTodo'
\* The processes the exclusion policy keeps out.
SelfExcluded(p) == cfgExcludeSelf /\ p = SelfPid
InternalProcess(p) == procs[p] # NoProc /\ internalProcessRegexMatch(procs[p])

\* C13: AttachPID for the agent's own PID (with self-exclusion configured)
\* returns ErrSelfExcluded, and for a process whose executable matches the
\* internal-agent pattern ErrInternalDDogProcessRejected; in both cases
\* Register is not called and registry, hooks and lookup table are unchanged.
C13_ExcludedNotRegistered ==
    [][\A t \in Threads, p \in AllPids :
          /\ (AttachCall(t, p) /\ SelfExcluded(p)) => lastErr' = "ErrSelfExcluded"
          /\ (AttachCall(t, p) /\ ~SelfExcluded(p) /\ InternalProcess(p)) =>
                lastErr' = "ErrInternalDDogProcessRejected"
          /\ (AttachCall(t, p) /\ (SelfExcluded(p) \/ InternalProcess(p))) =>
                /\ pc'[t] \notin {"register", "analyze", "attach_hooks"}
                /\ tpid'[t] = NoPid
                /\ UNCHANGED regVars]_vars

\* AttachPID has just rejected an internal agent process while a binary is
\* tracked and hooked.
C13_Witness ==
    /\ lastErr = "ErrInternalDDogProcessRejected"
    /\ GetRegisteredProcesses # {} /\ hooks # {}


\* The main goroutine calls registry.Clear in this step.
ClearStep == pc[Loop] = "cleanup" /\ pc'[Loop] = "exited"
MonitorIdle == \A t \in Mon : pc[t] = "idle"

\* C14: registry.Clear is called when the sweep is over (the main goroutine
\* has left its loop with no sweep in progress), both subscriptions are
\* cancelled and no callback of the process monitor is in a call; and from
\* the cancellation on no callback starts a call, so that none runs during
\* or after Clear.
C14_ClearAfterQuiescence ==
    [][/\ ClearStep =>
             /\ ~subscribed /\ notifs = {}
             /\ candidates = {} /\ attachTodo = {}
             /\ MonitorIdle
       /\ pc[Loop] \in {"cleanup", "exited"} =>
             /\ pc'[Loop] \in {"cleanup", "exited"}
             /\ ~subscribed' /\ notifs' = {}
             /\ \A t \in Mon : pc[t] = "idle" => pc'[t] = "idle"
             /\ MonitorIdle => lastErr' = "none"
       /\ pc[Loop] = "exited" => (MonitorIdle /\ UNCHANGED regVars)]_vars

\* The shutdown has cancelled the subscriptions and waits for a callback
\* that is installing hooks.
C14_Witness ==
    pc[Loop] = "cleanup" /\ \E t \in Mon : pc[t] = "attach_hooks"


\* C15: when Stop has returned, the stop signal is set, the main goroutine
\* has left its loop, cancelled the subscriptions and returned from
\* registry.Clear.
C15_StopWaitsForCleanup ==
    pc[Stopper] = "returned" => (done /\ ~subscribed /\ pc[Loop] = "exited")

\* Stop has returned on a host where a process of a user binary is running.
C15_Witness ==
    pc[Stopper] = "returned" /\ \E p \in PIDs : procs[p] \in UserPaths


\* C16: a Register call for an identity whose first-register callback is in
\* progress stays waiting, and no second callback of that identity starts;
\* a Register call, and the DetachPID of a pending exit event, can take
\* their step whenever the section of their own identity is free, whatever
\* is in progress for other identities.
C16_SerializedPerIdentity ==
    [][\A id \in Ids :
          /\ Cardinality({t \in Threads : InFirstCB(t, id)}) <= 1
          /\ \A u \in Threads :
                (WaitsInRegister(u, id) /\ \E t \in Threads : InFirstCB(t, id)) =>
                   /\ pc'[u] = "register"
                   /\ ~ENABLED Register(u)
          /\ \A u \in Threads :
                (WaitsInRegister(u, id) /\ ~SectionHeld(id)) => ENABLED Register(u)
          /\ \A u \in Mon, p \in PIDs :
                (/\ pc[u] = "idle" /\ subscribed
                 /\ [kind |-> "exit", pid |-> p] \in notifs
                 /\ p \in regPids[id] /\ ~SectionHeld(id)) =>
                   ENABLED handleProcessExit(u, p)]_vars

\* Two callbacks are in progress at the same time, for two identities.
C16_Witness ==
    \E t, u \in Mon :
       /\ pc[t] = "attach_hooks" /\ pc[u] \in FirstCB
       /\ PathID(tpath[t]) # PathID(tpath[u])


\* The sweep cannot go on before the analysis or hook installation of
\* identity id returns: it runs that callback itself, or its AttachPID waits
\* in Register for the callback another thread runs.
SweepHeldBy(id) ==
    /\ PathID(tpath[Loop]) = id
    /\ \/ pc[Loop] \in FirstCB
       \/ pc[Loop] = "register" /\ \E t \in Threads : InFirstCB(t, id)

\* C17: an analysis or hook installation of one identity that does not
\* return holds up no attach or detach of another identity: while the sweep
\* is held by the callback of an identity, it has no listed process of
\* another binary left to attach and no PID of another identity left to
\* detach.
C17_HangBlocksOnlyItsIdentity ==
    \A id \in Ids :
       SweepHeldBy(id) =>
          /\ \A p \in attachTodo : procs[p] \notin UserPaths \ {HostPath(id)}
          /\ candidates \subseteq regPids[id]


C19_BestEffortTeardown ==
    [][\A t \in Threads, id \in Ids :
          LastCBReturns(t, id) =>
             /\ Cardinality(regProbeIDs[id] \cap HooksOf(id)') <= faultsLeft - faultsLeft'
             /\ HooksOf(id)' \subseteq HooksOf(id)
             /\ id \notin offsetsData'
             /\ regPids'[id] = {} /\ regProbeIDs'[id] = {}
             /\ lastErr' = "none"
             /\ pc'[t] \notin {"register", "analyze", "attach_hooks", "detach_hooks"}]_vars

\* A last-unregister callback has removed the lookup-table entry and is
\* about to detach the probes of its list, one of which may fail.
C19_Witness ==
    \E t \in Mon, id \in Ids :
       /\ pc[t] = "detach_hooks" /\ PathID(tpath[t]) = id
       /\ faultsLeft > 0
       /\ regProbeIDs[id] = AllProbes(id) /\ AllProbes(id) \subseteq hooks
       /\ id \notin offsetsData


\* Steps in which the client's GoTLSAttachPID returns: from Register or the
\* callback, or at once (nothing but the result changes).
ApiReturn ==
    \/ pc[Api] # "idle" /\ pc'[Api] = "idle"
    \/ pc' = pc /\ envVars' = envVars /\ lastErr' # "none"

\* C20: GoTLSAttachPID returns nil, and changes nothing, when the PID is
\* already registered for its binary; it never returns the duplicate
\* condition; the errors it returns are "not enabled" and the other errors
\* of AttachPID; and when it returns nil from Register the PID is tracked.
C20_DuplicateIsBenign ==
    [][/\ \A id \in Ids :
             (WaitsInRegister(Api, id) /\ tpid[Api] \in regPids[id] /\ pc'[Api] # "register") =>
                (pc'[Api] = "idle" /\ lastErr' = "none" /\ UNCHANGED regVars)
       /\ ApiReturn =>
             lastErr' \in {"none", "ErrGoTLSNotEnabled", "ErrSelfExcluded", "ErrReadlink",
                           "ErrInternalDDogProcessRejected", "ErrAttachHooks"}
                             \cup AnalysisErrors
       /\ \A id \in Ids :
             (pc[Api] # "idle" /\ PathID(tpath[Api]) = id /\ pc'[Api] = "idle"
                /\ lastErr' = "none") => tpid[Api] \in regPids'[id]]_vars

\* The client's AttachPID is in Register for a PID that the process monitor
\* has attached before.
C20_Witness ==
    \E id \in Ids : WaitsInRegister(Api, id) /\ tpid[Api] \in regPids[id] /\ ~SectionHeld(id)

\* ------------------------------------------------------ claims: log sender
\* Positions of run inside the poll loop of lines 89-109.
InPollLoop == senderPc \in {"reliable", "reliable_done", "sleep"}
\* Some reliable destSender has answered true to Send(pl).
Accepted(pl) == \E d \in Reliable : pl \in destInput[d]

\* C21: run leaves the poll loop of a payload, and takes the next payload
\* from inputChan, only after a reliable destination has accepted the
\* payload; as long as none has, run stays in the poll loop with the same
\* payload, nothing leaves inputChan, and after the sleep it starts another
\* pass over the reliable destinations.
C21_BlocksUntilReliableAccepts ==
    [][/\ (InPollLoop /\ \A d \in Reliable : payload \notin destInput'[d]) =>
             (InPollLoop' /\ payload' = payload /\ egress' = egress
                /\ Len(inputChan') >= Len(inputChan))
       /\ payload' # payload =>
             (senderPc = "range" /\ (payload = NoPayload \/ Accepted(payload)))
       /\ (senderPc = "sleep" /\ senderPc' # "sleep") =>
             (senderPc' = "reliable" /\ destIdx' = 1)]_senderVars

\* Every reliable destination has refused the first payload while the
\* second waits on inputChan.
C21_Witness ==
    /\ senderPc = "sleep" /\ payload = 1 /\ ~Accepted(1)
    /\ inputChan = <<2>>

\* An unreliable destSender has refused the payload run is working on.
RefusedByUnreliable == \E d \in Unreliable : <<d, payload>> \in dropped

\* C22, first half: run calls NonBlockingSend on an unreliable destination
\* only for a payload that a reliable destination has accepted.
C22_UnreliableAfterReliable ==
    [][(\E d \in Unreliable : destInput'[d] # destInput[d]) \/ dropped' # dropped =>
          Accepted(payload)]_senderVars

C23_StopFlushesAndStops ==
    stopPc = "returned" =>
        /\ inputChan = <<>>
        /\ egress = 1..produced
        /\ \A pl \in 1..produced : Accepted(pl)
        /\ \A d \in Dests : destStopped[d]

\* Stop has returned after run processed every payload, one of which an
\* unreliable destination refused.
C23_Witness ==
    stopPc = "returned" /\ produced = MaxPayloads /\ egress = Payloads /\ dropped # {}

\* ------------------------------------------- claims: lookup table and hooks
\* C24: the lookup table changes before the hooks do. A step that installs
\* a hook of an identity finds the identity's lookup-table entry written,
\* and a step of the last-unregister callback that removes a hook of an
\* identity finds the entry deleted (registry.Clear runs the callbacks of
\* all identities in one step, after which the entry is deleted).
C24_LookupTableBeforeHooks ==
    [][\A id \in Ids :
          /\ HooksOf(id)' \ HooksOf(id) # {} => id \in offsetsData
          /\ (HooksOf(id) \ HooksOf(id)' # {} /\ ~ClearStep) => id \notin offsetsData
          /\ HooksOf(id) \ HooksOf(id)' # {} => id \notin offsetsData']_vars

\* A last-unregister callback has deleted the lookup-table entry of an
\* identity and has not removed its hooks yet.
C24_Witness ==
    \E t \in Threads, id \in Ids :
        /\ pc[t] = "detach_hooks" /\ PathID(tpath[t]) = id
        /\ id \notin offsetsData
        /\ regProbeIDs[id] # {} /\ regProbeIDs[id] \subseteq hooks

\* ------------------------------------------------------- claims: the sweep
\* The PIDs the enumeration of a sweep reports.
Enumerated == {p \in AllPids : procs[p] # NoProc}
\* A step of the main goroutine inside sync.
SyncStep == pc[Loop] # "select" /\ (pc'[Loop] # pc[Loop] \/ syncVars' # syncVars)
\* AttachPID(p) was called by the sweep in this step: it is in Register, or
\* it has returned one of its own errors.
SweepCalledAttach(p) ==
    \/ pc'[Loop] = "register" /\ tpid'[Loop] = p
    \/ pc'[Loop] \in {"sync_attach", "sync_detach", "select"}
          /\ lastErr' \in {"ErrSelfExcluded", "ErrReadlink", "ErrInternalDDogProcessRejected"}
\* DetachPID(p) was called by the sweep in this step: the PID left an
\* interested set, or the registry reported it unknown.
SweepCalledDetach(p) ==
    \/ \E id \in Ids : p \in regPids[id] /\ regPids' = [regPids EXCEPT ![id] = @ \ {p}]
    \/ lastErr' = "ErrPathIsNotRegistered" /\ UNCHANGED regVars

\* C25: with the snapshot in deletionCandidates, the enumeration leaves for
\* DetachPID exactly the snapshot PIDs it does not report and for AttachPID
\* exactly the reported PIDs that are not in the snapshot; the sweep calls
\* AttachPID once for each of the latter and DetachPID once for each of the
\* former, for no other PID, and ends only when it has called them all.
C25_SweepPartition ==
    [][/\ ListStep =>
             /\ attachTodo' = Enumerated \ candidates
             /\ candidates' = candidates \ Enumerated
       /\ (SyncStep /\ pc[Loop] = "sync_attach") =>
             \E p \in attachTodo :
                /\ attachTodo' = attachTodo \ {p} /\ candidates' = candidates
                /\ SweepCalledAttach(p)
       /\ (SyncStep /\ pc[Loop] = "sync_detach") =>
             \E p \in candidates :
                /\ candidates' = candidates \ {p} /\ attachTodo' = attachTodo
                /\ attachTodo = {}
                /\ SweepCalledDetach(p)
       /\ (SyncStep /\ pc[Loop] \notin {"sync_list", "sync_attach", "sync_detach"}) =>
             UNCHANGED syncVars
       /\ (SyncStep /\ pc'[Loop] = "select") => (attachTodo' = {} /\ candidates' = {})]_vars

\* A sweep has called AttachPID for the agent's own PID, has a tracked PID
\* left to detach, and another tracked PID is alive and in neither set.
C25_Witness ==
    /\ pc[Loop] = "sync_detach" /\ candidates # {} /\ attachTodo = {}
    /\ \E p \in PIDs : p \in GetRegisteredProcesses /\ procs[p] # NoProc /\ p \notin candidates

\* C26: the sweep changes registry, hooks and lookup table only inside its
\* AttachPID and DetachPID calls: taking the snapshot and removing the
\* listed PIDs from deletionCandidates leave them as they are, and a sweep
\* whose snapshot equals the set of listed PIDs (every tracked PID alive,
\* every live PID tracked) ends at once, with nothing changed.
C26_SweepFrame ==
    [][/\ (pc[Loop] = "select" /\ pc'[Loop] = "sync_list") => UNCHANGED regVars
       /\ ListStep => UNCHANGED regVars
       /\ (ListStep /\ candidates = Enumerated) =>
             (pc'[Loop] = "select" /\ attachTodo' = {} /\ candidates' = {})
       /\ (pc[Loop] = "sync_attach" /\ pc'[Loop] # "register") => UNCHANGED regVars
       /\ regVars' # regVars =>
             pc[Loop] \in {"register", "analyze", "attach_hooks", "sync_detach",
                           "detach_hooks"}]_vars

\* The sweep is about to list the processes; every tracked PID is alive and
\* every live PID, the agent's included, is tracked.
C26_Witness ==
    /\ pc[Loop] = "sync_list"
    /\ candidates = Enumerated /\ candidates = GetRegisteredProcesses
    /\ Cardinality(candidates) >= 2

\* An AttachPID or DetachPID call of the sweep returns an error in this step.
SweepCallFails == SyncStep /\ lastErr' # "none"

\* C27: when an AttachPID or DetachPID call of the sweep fails, the sweep
\* goes on with the PIDs that are left (the next PID to attach, else the
\* next candidate to detach) and loses none of them, the coordinator is
\* neither stopped nor unsubscribed, the sweep is over only when no PID is
\* left, and at the select the next tick can start another sweep.
C27_FailureDoesNotStopSweep ==
    [][/\ SweepCallFails =>
             /\ pc'[Loop] = (IF attachTodo' # {} THEN "sync_attach"
                             ELSE IF candidates' # {} THEN "sync_detach" ELSE "select")
             /\ attachTodo' \subseteq attachTodo /\ candidates' \subseteq candidates
             /\ Cardinality(attachTodo \ attachTodo') + Cardinality(candidates \ candidates') <= 1
             /\ done' = done /\ subscribed' = subscribed
       /\ (SyncStep /\ pc'[Loop] = "select") => (attachTodo' = {} /\ candidates' = {})
       /\ pc[Loop] = "select" => ENABLED syncSnapshot]_vars

\* attachHooks has failed for a PID of the sweep, and the sweep is about to
\* detach a candidate.
C27_Witness ==
    lastErr = "ErrAttachHooks" /\ pc[Loop] = "sync_detach" /\ candidates # {}

Occurrences(list, probe) == Cardinality({i \in 1..Len(list) : list[i] = probe})

\* C29: the list a successful attachHooks returns holds, each once, the
\* entry probe of Read, of Write and of Close and, for Read and for Write,
\* one return probe per return location of the function, and nothing else;
\* the probes it added to the manager are exactly the probes of the list.
C29_AttachHooksInstallsPlan ==
    (attachCall.called /\ ~attachCall.result.err) =>
        \A id \in {PathID(attachCall.path)}, list \in {attachCall.result.probeIDs} :
            /\ \A probe \in {connReadProbe, connWriteProbe, connCloseProbe} :
                  Occurrences(list, [EBPFFuncName |-> probe, bin |-> id, idx |-> -1]) = 1
            /\ \A k \in 0..(NumReturnLocations(attachCall.path, ReadGoTLSFunc) - 1) :
                  Occurrences(list, [EBPFFuncName |-> connReadRetProbe, bin |-> id, idx |-> k]) = 1
            /\ \A k \in 0..(NumReturnLocations(attachCall.path, WriteGoTLSFunc) - 1) :
                  Occurrences(list, [EBPFFuncName |-> connWriteRetProbe, bin |-> id, idx |-> k]) = 1
            /\ Len(list) = 3 + NumReturnLocations(attachCall.path, ReadGoTLSFunc)
                             + NumReturnLocations(attachCall.path, WriteGoTLSFunc)
            /\ attachCall.result.added = Range(list)
            /\ Cardinality(attachCall.result.added) = Len(list)

\* attachHooks has succeeded on a binary with two return locations of Read
\* and one of Write.
C29_Witness ==
    /\ attachCall.called /\ ~attachCall.result.err
    /\ attachCall.path = PathC /\ Len(attachCall.result.probeIDs) = 6

\* ------------------------------------------ claims: the entry's handle list
\* The last-unregister callback of an identity returns in this step.
LastCBEnds(id) ==
    \E t \in Threads : pc[t] = "detach_hooks" /\ PathID(tpath[t]) = id /\ pc'[t] # "detach_hooks"

\* C30: the handle list of an entry is the one its successful first
\* registration produced, whatever AttachPID calls for further PIDs of the
\* identity came later: while the entry exists the list holds every probe
\* that attachHooks installed, a Register that adds a PID leaves it alone,
\* and the last-unregister callback, on the last Unregister or in Clear,
\* removes the hooks of that list, all of them but those whose DetachHook
\* failed, and no other hook.
C30_RemovesFirstRegistrationHooks ==
    [][\A id \in Ids :
          /\ (regPids[id] # {} /\ ~SectionHeld(id)) =>
                (regProbeIDs[id] = AllProbes(id) /\ AllProbes(id) \subseteq hooks)
          /\ (regPids[id] # {} /\ regPids[id] \subseteq regPids'[id]) =>
                regProbeIDs'[id] = regProbeIDs[id]
          /\ (LastCBEnds(id) \/ (ClearStep /\ regPids[id] # {})) =>
                /\ HooksOf(id) \ HooksOf(id)' \subseteq AllProbes(id)
                /\ Cardinality(AllProbes(id) \cap HooksOf(id)') <= faultsLeft - faultsLeft'
          /\ LastCBEnds(id) => \A other \in Ids \ {id} : HooksOf(other)' = HooksOf(other)
          /\ (ClearStep /\ regPids[id] = {}) => HooksOf(id)' = HooksOf(id)]_vars

\* The shutdown is about to clear a registry in which two PIDs share the
\* entry of one binary.
C30_Witness ==
    /\ pc[Loop] = "cleanup" /\ \A t \in Mon : pc[t] = "idle"
    /\ \E id \in Ids : Cardinality(regPids[id]) = 2 /\ regProbeIDs[id] = AllProbes(id)

\* C31: whenever no registration or unregistration callback is in progress,
\* the identities with a lookup-table entry are the identities with hooks
\* installed, and both are the identities with a registry entry.
C31_TableHooksRegistryAgree ==
    (\A t \in Threads : ~InCallback(t)) =>
       /\ offsetsData \cap Ids = {id \in Ids : HooksOf(id) # {}}
       /\ offsetsData = {id \in Ids : regPids[id] # {}}

\* The process of PID p is alive and tracked: p is in the interested set of
\* the binary its process runs.
AliveAndTracked(p) == \E id \in Ids : p \in regPids[id] /\ procs[p] = HostPath(id)

\* C32: the sweep never calls DetachPID for a PID whose process is alive and
\* tracked at the time of the call, whatever starts, exits and notifications
\* happen during the sweep, reuse of a PID after the enumeration included.
C32_SweepSparesLiveProcess ==
    [][\A p \in PIDs : DetachCall(Loop, p) => ~AliveAndTracked(p)]_vars

\* One callback runner, a client that calls GoTLSAttachPID, and the shutdown;
\* every hook call succeeds.
InitStopAPI == InitWith({TRUE}, 0) /\ NewSender({FALSE}, {FALSE}) /\ StartWPA /\ NoAttachCall
NextStopAPI == EnvNext \/ MonNext({"m1"}) \/ RegistryNext \/ StopNext \/ ApiNext
SpecStopAPI == InitStopAPI /\ [][NextStopAPI]_vars

\* C33: once Stop has returned, no hook is installed and the registry has no
\* entry, in that state and in every later one, whatever GoTLSAttachPID calls
\* are made while Stop runs or after it.
C33_NothingAfterStop ==
    pc[Stopper] = "returned" => (hooks = {} /\ \A id \in Ids : regPids[id] = {})

\* The steps of the Register/Unregister call thread t has in progress.
RegistryStep(t) ==
    \/ Register(t)
    \/ \E outcome \in AnalysisErrors \cup {"nil"} : registerCBAnalyze(t, outcome)
    \/ \E order \in FunctionOrders, failAt \in 0..5 : registerCBAttach(t, order, failAt)
    \/ \E failed \in SUBSET hooks : unregisterCBDetach(t, failed)

\* The steps of a sweep that has started.
SweepStep == syncList \/ syncAttach \/ \E p \in PIDs : syncDetach(p)

\* The shutdown with the progress the scheduling gives: a call in progress
\* and a sweep in progress go on until they end (a call that waits for the
\* section of an identity gets it when it is free often enough), the select
\* takes the done branch when it comes back to it often enough with p.done
\* closed (a select picks at random among the cases that are ready), and the
\* deferred cleanup and the waiting Stop go on.
FairShutdown ==
    /\ \A t \in {Loop, "m1"} : SF_vars(RegistryStep(t))
    /\ SF_vars(SweepStep)
    /\ SF_vars(loopUnsubscribe)
    /\ WF_vars(\E failed \in SUBSET hooks : loopClear(failed))
    /\ WF_vars(stopReturn)
\* The shutdown on a host where every process runs the same Go binary.
NextShutdownFair ==
    \/ \E p \in PIDs, notify \in BOOLEAN : ProcStart(p, PathA, notify)
    \/ \E p \in PIDs, notify \in BOOLEAN : ProcExit(p, notify)
    \/ MonNext({"m1"})
    \/ RegistryNext
    \/ SyncNext
    \/ StopNext
SpecShutdownFair == InitShutdown /\ [][NextShutdownFair]_vars /\ FairShutdown

Taken(pl) == pl \in 1..produced /\ pl \notin Range(inputChan)

\* C35: with senderDoneChan and flushWg both set, flushWg.Done is called
\* once for each payload run has taken from inputChan (before run takes the
\* next payload or leaves the loop, and never again), and at the call every
\* increment made on the payload's wait group has been released by the
\* reader of senderDoneChan.
C35_FlushDoneOncePerPayload ==
    [][(senderDoneChanSet /\ flushWgSet) =>
          /\ \A pl \in Payloads :
                flushWgDone'[pl] # flushWgDone[pl] =>
                   /\ pl = payload /\ Taken(pl)
                   /\ flushWgDone[pl] = 0 /\ flushWgDone'[pl] = 1
                   /\ senderDoneWg = 0 /\ wgHeld = 0
          /\ (senderPc = "range" /\ senderPc' # "range") =>
                \A pl \in Payloads : flushWgDone[pl] = IF Taken(pl) THEN 1 ELSE 0]_senderVars

\* flushWg.Done has been called for the first payload, which an unreliable
\* destination refused, and run has taken the second.
C35_Witness ==
    /\ senderDoneChanSet /\ flushWgSet
    /\ flushWgDone[1] = 1 /\ <<NumReliable + 1, 1>> \in dropped
    /\ payload = 2 /\ senderPc = "wait" /\ senderDoneWg > 0

\* run leaves the reliable destSender destIdx of the loop of line 111.
BufferStep == senderPc = "buffer" /\ <<senderPc, destIdx>>' # <<senderPc, destIdx>>

\* C36: while run processes a payload, a reliable destination gets it at most
\* once: Send hands it only to a destination that does not have it, and the
\* loop of line 111 leaves alone (no NonBlockingSend, no drop counted) every
\* destination that accepted the payload through Send, and addresses only
\* destinations whose last Send failed.
C36_ReliableGetsPayloadOnce ==
    [][/\ (senderPc = "reliable" /\ destInput'[destIdx] # destInput[destIdx]) =>
             (payload \notin destInput[destIdx] /\ lastSendSucceeded'[destIdx])
       /\ BufferStep =>
             /\ payload \in destInput[destIdx] =>
                   (destInput' = destInput /\ dropped' = dropped)
             /\ (destInput' # destInput \/ dropped' # dropped) =>
                   (~lastSendSucceeded[destIdx] /\ payload \notin destInput[destIdx])]_senderVars

\* The loop of line 111 is at a destination whose Send failed, after another
\* destination accepted the payload through Send.
C36_Witness ==
    /\ senderPc = "buffer" /\ destIdx = 2
    /\ ~lastSendSucceeded[2] /\ payload \notin destInput[2]
    /\ lastSendSucceeded[1] /\ payload \in destInput[1]

\* The delay of the retry after `k` retries: the initial interval times the
\* multiplier to the k, at most the maximal interval.
ExpectedDelay(k) ==
    LET d == crdCheckInitialInterval * crdCheckMultiplier ^ k
    IN  IF d > crdCheckMaxInterval THEN crdCheckMaxInterval ELSE d

\* A turn of RetryNotify's loop ends: the check has returned.
CheckStep == wpaPc = "check" /\ wpaPc' # "check"

\* C37: a check that fails with the CRD-not-found error is retried after the
\* delay of the exponential backoff, however much time has passed; a check
\* that succeeds ends the wait; a check that fails with any other error ends
\* the wait at once with that error.
C37_RetriesWhileCRDMissing ==
    [][CheckStep =>
          /\ checkErr' = ErrCRDNotFound =>
                (wpaPc' = "sleep" /\ delay' = ExpectedDelay(attempt) /\ retryErr' = "none")
          /\ checkErr' = NilError => (wpaPc' = "enable" /\ retryErr' = "nil")
          /\ checkErr' \notin {NilError, ErrCRDNotFound} =>
                (wpaPc' = "enable" /\ retryErr' = "error")]_wpaVars

\* The check is retried at the maximal interval, more than that interval
\* after the wait began.
C37_Witness ==
    /\ wpaPc = "sleep" /\ checkErr = ErrCRDNotFound
    /\ delay = crdCheckMaxInterval
    /\ elapsed > crdCheckMaxInterval

\* C38: the WPA event handlers are installed and wpaEnabled is set only if
\* the CRD check ended in success.
C38_EnabledOnlyAfterSuccess ==
    (handlers \/ wpaEnabled) => retryErr = "nil"

\* The handler of an update event returns.
UpdateHandled == handlerPc = "update" /\ handlerPc' = "idle"

\* C39: on an update event whose old and new objects are WPAs, the handler
\* deletes the metrics of the old object from the local store and enqueues
\* the new object when their metrics-relevant configurations differ, and
\* changes neither the store nor the queue when they do not.
C39_UpdateComparesOldWithNew ==
    [][(UpdateHandled /\ UnstructuredIntoWPA(updateCall.old)
                      /\ UnstructuredIntoWPA(updateCall.obj)) =>
          IF updateCall.old.config # updateCall.obj.config
          THEN /\ toStore' = toStore \ {updateCall.old.config}
               /\ wpaQueue' = wpaQueue \cup {updateCall.obj.key}
          ELSE toStore' = toStore /\ wpaQueue' = wpaQueue]_wpaVars

====
